---- MODULE Spec2Model ----
(***************************************************************************)
(* The embedded MIPS-like assembly interpreter of the workspace: the       *)
(* program loader (parseMipsProgram), the machine state built by           *)
(* initializeMipsMachine, the instruction executor (stepMipsMachine) and   *)
(* the execution driver (runMipsMachineToEnd).                             *)
(*                                                                         *)
(* Text is a sequence of characters, each character a one-element string   *)
(* of CharTable (position = character code + 1).  A JavaScript number that *)
(* may leave the signed 32-bit range is a pair <<hi, lo>> standing for     *)
(* hi * 65536 + lo with lo in 0..65535; a value known to be a 32-bit       *)
(* integer is a plain integer.                                             *)
(***************************************************************************)
EXTENDS Integers, Sequences, FiniteSets, TLC

VARIABLES machine, second, initial, current, previous, written, stepped, driver

vars == <<machine, second, initial, current, previous, written, stepped, driver>>

(***************************************************************************)
(* Characters                                                              *)
(***************************************************************************)
CharTable ==
  <<
     "<00>", "<01>", "<02>", "<03>", "<04>", "<05>", "<06>", "<07>",
     "<08>", "\t", "\n", "<0B>", "\f", "\r", "<0E>", "<0F>",
     "<10>", "<11>", "<12>", "<13>", "<14>", "<15>", "<16>", "<17>",
     "<18>", "<19>", "<1A>", "<1B>", "<1C>", "<1D>", "<1E>", "<1F>",
     " ", "!", "\"", "#", "$", "%", "&", "'",
     "(", ")", "*", "+", ",", "-", ".", "/",
     "0", "1", "2", "3", "4", "5", "6", "7",
     "8", "9", ":", ";", "<", "=", ">", "?",
     "@", "A", "B", "C", "D", "E", "F", "G",
     "H", "I", "J", "K", "L", "M", "N", "O",
     "P", "Q", "R", "S", "T", "U", "V", "W",
     "X", "Y", "Z", "[", "\\", "]", "^", "_",
     "<60>", "a", "b", "c", "d", "e", "f", "g",
     "h", "i", "j", "k", "l", "m", "n", "o",
     "p", "q", "r", "s", "t", "u", "v", "w",
     "x", "y", "z", "{", "|", "}", "~", "<7F>",
     "<80>", "<81>", "<82>", "<83>", "<84>", "<85>", "<86>", "<87>",
     "<88>", "<89>", "<8A>", "<8B>", "<8C>", "<8D>", "<8E>", "<8F>",
     "<90>", "<91>", "<92>", "<93>", "<94>", "<95>", "<96>", "<97>",
     "<98>", "<99>", "<9A>", "<9B>", "<9C>", "<9D>", "<9E>", "<9F>",
     "<A0>", "<A1>", "<A2>", "<A3>", "<A4>", "<A5>", "<A6>", "<A7>",
     "<A8>", "<A9>", "<AA>", "<AB>", "<AC>", "<AD>", "<AE>", "<AF>",
     "<B0>", "<B1>", "<B2>", "<B3>", "<B4>", "<B5>", "<B6>", "<B7>",
     "<B8>", "<B9>", "<BA>", "<BB>", "<BC>", "<BD>", "<BE>", "<BF>",
     "<C0>", "<C1>", "<C2>", "<C3>", "<C4>", "<C5>", "<C6>", "<C7>",
     "<C8>", "<C9>", "<CA>", "<CB>", "<CC>", "<CD>", "<CE>", "<CF>",
     "<D0>", "<D1>", "<D2>", "<D3>", "<D4>", "<D5>", "<D6>", "<D7>",
     "<D8>", "<D9>", "<DA>", "<DB>", "<DC>", "<DD>", "<DE>", "<DF>",
     "<E0>", "<E1>", "<E2>", "<E3>", "<E4>", "<E5>", "<E6>", "<E7>",
     "<E8>", "<E9>", "<EA>", "<EB>", "<EC>", "<ED>", "<EE>", "<EF>",
     "<F0>", "<F1>", "<F2>", "<F3>", "<F4>", "<F5>", "<F6>", "<F7>",
     "<F8>", "<F9>", "<FA>", "<FB>", "<FC>", "<FD>", "<FE>", "<FF>"
  >>

CodeOf == [c \in {CharTable[i] : i \in 1..Len(CharTable)} |->
             (CHOOSE i \in 1..Len(CharTable) : CharTable[i] = c) - 1]

CharsOfCodes(S) == {CharTable[i + 1] : i \in S}

\* \s of a JavaScript regular expression, and what String.prototype.trim strips
Space == CharsOfCodes((9..13) \cup {32, 160})
DecDigit == CharsOfCodes(48..57)
HexDigit == CharsOfCodes((48..57) \cup (65..70) \cup (97..102))
\* \w
Word == CharsOfCodes((48..57) \cup (65..90) \cup (97..122) \cup {95})
\* [A-Za-z_.$]
LabelStart == CharsOfCodes((65..90) \cup (97..122) \cup {95, 46, 36})
\* [\w.$]
LabelRest == Word \cup {".", "$"}
\* . (no s flag): anything but a line terminator
Dot == CharsOfCodes((0..255) \ {10, 13})
\* [^,\s]
NotCommaSpace == CharsOfCodes(0..255) \ (Space \cup {","})
AnyChar == CharsOfCodes(0..255)

\* F(e) with e evaluated once: a local constant of the code (const x = e; ...)
Bind(e, F(_)) == CHOOSE r \in {F(x) : x \in {e}} : TRUE

\* String.prototype.toLowerCase on one character; the i flag of a pattern
ToLower(c) == IF CodeOf[c] \in 65..90 THEN CharTable[CodeOf[c] + 33] ELSE c

LowerCase(s) == [i \in 1..Len(s) |-> ToLower(s[i])]

Slice(s, from, to) == SubSeq(s, from, to)

\* the first position >= i of s whose character is outside class C (Len(s)+1 if none)
SkipWhile(s, i, C) ==
  IF i > Len(s) THEN i
  ELSE CHOOSE p \in i..(Len(s) + 1) :
         /\ p > Len(s) \/ s[p] \notin C
         /\ \A q \in i..(p - 1) : s[q] \in C

\* the last position <= i of s whose character is outside class C (0 if none)
SkipBack(s, i, C) ==
  IF i < 1 THEN i
  ELSE CHOOSE p \in 0..i :
         /\ p < 1 \/ s[p] \notin C
         /\ \A q \in (p + 1)..i : s[q] \in C

\* s has the literal lit (lower case) at position i, compared case-insensitively
HasLitI(s, i, lit) ==
  /\ i + Len(lit) - 1 <= Len(s)
  /\ \A k \in 1..Len(lit) : ToLower(s[i + k - 1]) = lit[k]

\* String.prototype.trim
Trim(text) ==
  Bind(text, LAMBDA s :
  Bind(SkipWhile(s, 1, Space), LAMBDA a :
  Bind(SkipBack(s, Len(s), Space), LAMBDA b :
    IF a > b THEN <<>> ELSE SubSeq(s, a, b))))

(***************************************************************************)
(* Numbers                                                                 *)
(***************************************************************************)
\* 2^16
Half == 256 * 256

\* a 32-bit integer as a wide number
WOfInt(x) == <<x \div Half, x % Half>>

WAdd(a, b) ==
  LET s == a[2] + b[2] IN <<a[1] + b[1] + (s \div Half), s % Half>>

WNeg(a) == IF a[2] = 0 THEN <<0 - a[1], 0>> ELSE <<0 - a[1] - 1, Half - a[2]>>

WSub(a, b) == WAdd(a, WNeg(b))

\* value | 0 : the low 32 bits, read as a two-complement integer
ToInt32(w) ==
  LET h == w[1] % Half
  IN (IF h >= 32768 THEN h - Half ELSE h) * Half + w[2]

\* value & 0xff
LowByte(x) == x % 256

DigitValue(c) ==
  LET k == CodeOf[c]
  IN IF k \in 48..57 THEN k - 48
     ELSE IF k \in 65..70 THEN k - 55
     ELSE k - 87

\* null / undefined / NaN; a present value x is <<x>>
Null == <<>>

Some(x) == <<x>>

(***************************************************************************)
(* Number.parseInt returns an IEEE double.  The integer it reads is kept   *)
(* as a natural number written in base 2^16, lowest digit first and no     *)
(* leading zero digit (<<>> is 0), and the double is the record            *)
(*   negative  the sign (parseInt("-0") is -0)                             *)
(*   mantissa  a natural number below 2^53                                 *)
(*   exponent  the value is mantissa * 2^exponent                          *)
(*   infinite  TRUE for Infinity and -Infinity                             *)
(***************************************************************************)
RECURSIVE Pow(_, _)
Pow(b, k) == IF k = 0 THEN 1 ELSE b * Pow(b, k - 1)

\* the natural number n without its leading zero digits
Normalize(n) ==
  LET used == {i \in 1..Len(n) : n[i] # 0}
  IN IF used = {} THEN <<>>
     ELSE SubSeq(n, 1, CHOOSE i \in used : \A j \in used : j <= i)

\* the i-th digit of n in base 2^16
Limb(n, i) == IF i \in 1..Len(n) THEN n[i] ELSE 0

\* the bit of weight 2^i of n
Bit(n, i) == (Limb(n, (i \div 16) + 1) \div Pow(2, i % 16)) % 2

\* the number of bits of n
BitLength(n) ==
  IF n = <<>> THEN 0
  ELSE 16 * (Len(n) - 1)
       + (CHOOSE k \in 1..16 : n[Len(n)] >= Pow(2, k - 1) /\ n[Len(n)] < Pow(2, k))

\* the digits of a natural number from the sums t, each below 2 * 2^16 - 1,
\* of its digit positions: position k takes a carry when the nearest position
\* below it that is not one short of 2^16 reaches 2^16
Carried(t) ==
  Normalize([k \in 1..Len(t) |->
               LET d == CHOOSE d \in 1..k :
                          /\ d = k \/ t[k - d] # Half - 1
                          /\ \A q \in (k - d + 1)..(k - 1) : t[q] = Half - 1
               IN (t[k] + (IF d < k /\ t[k - d] >= Half THEN 1 ELSE 0)) % Half])

\* n * mult + add, for mult <= 2^14 and add < mult
MulAdd(n, mult, add) ==
  LET product(i) == Limb(n, i) * mult + (IF i = 1 THEN add ELSE 0)
  IN Carried([k \in 1..(Len(n) + 1) |->
                (product(k) % Half) + (IF k = 1 THEN 0 ELSE product(k - 1) \div Half)])

\* a + b
BigAdd(a, b) ==
  Carried([k \in 1..((IF Len(a) > Len(b) THEN Len(a) ELSE Len(b)) + 1) |->
             Limb(a, k) + Limb(b, k)])

\* the digits s[i..j], at most four of them, read in the radix
RECURSIVE SmallValue(_, _, _, _)
SmallValue(s, i, j, radix) ==
  IF i > j THEN 0 ELSE SmallValue(s, i, j - 1, radix) * radix + DigitValue(s[j])

\* how many digits are read at a time
ChunkLen(radix) == IF radix = 16 THEN 3 ELSE 4

\* n * radix^count
RECURSIVE ShiftDigits(_, _, _)
ShiftDigits(n, radix, count) ==
  IF count <= ChunkLen(radix) THEN MulAdd(n, Pow(radix, count), 0)
  ELSE Bind(ShiftDigits(n, radix, count \div 2), LAMBDA h :
         ShiftDigits(h, radix, count - (count \div 2)))

\* the digits s[i..j] read in the radix, exactly: the value of the upper half
\* of the digits, shifted, plus the value of the lower half
RECURSIVE DigitsValue(_, _, _, _)
DigitsValue(s, i, j, radix) ==
  IF j - i + 1 <= ChunkLen(radix) THEN Normalize(<<SmallValue(s, i, j, radix)>>)
  ELSE Bind((i + j) \div 2, LAMBDA mid :
       Bind(DigitsValue(s, i, mid, radix), LAMBDA upper :
       Bind(DigitsValue(s, mid + 1, j, radix), LAMBDA lower :
         BigAdd(ShiftDigits(upper, radix, j - mid), lower))))

\* n \div 2^c
ShiftRight(n, c) ==
  LET q == c \div 16
      r == c % 16
  IN Normalize([j \in 1..(Len(n) - q) |->
                  (Limb(n, j + q) \div Pow(2, r))
                  + (Limb(n, j + q + 1) % Pow(2, r)) * Pow(2, 16 - r)])

\* n + 1
Increment(n) ==
  Normalize([j \in 1..(Len(n) + 1) |->
               IF \A k \in 1..(j - 1) : n[k] = Half - 1
               THEN (Limb(n, j) + 1) % Half ELSE Limb(n, j)])

Infinity(neg) == [negative |-> neg, mantissa |-> <<>>, exponent |-> 0, infinite |-> TRUE]

\* the double nearest to the natural number n with the sign neg: n itself
\* up to 53 bits; beyond, the upper 53 bits rounded to nearest, a tie to the
\* even mantissa; Infinity once the rounded value reaches 2^1024
RoundToDouble(neg, n) ==
  Bind(BitLength(n) - 53, LAMBDA c :
    IF c <= 0 THEN [negative |-> neg, mantissa |-> n, exponent |-> 0, infinite |-> FALSE]
    ELSE Bind(Bit(n, c - 1) = 1
                /\ (Bit(n, c) = 1 \/ \E i \in 0..(c - 2) : Bit(n, i) = 1),
              LAMBDA up :
         Bind(IF up THEN Increment(ShiftRight(n, c)) ELSE ShiftRight(n, c), LAMBDA m :
         Bind(IF BitLength(m) > 53 THEN <<ShiftRight(m, 1), c + 1>> ELSE <<m, c>>,
              LAMBDA r :
           IF 53 + r[2] > 1024 THEN Infinity(neg)
           ELSE [negative |-> neg, mantissa |-> r[1], exponent |-> r[2],
                 infinite |-> FALSE]))))

\* the most digits after the leading zeros a finite double can have: a
\* literal of more digits is at least 10^309 or 16^256, beyond every double
MaxDigits(radix) == IF radix = 16 THEN 256 ELSE 309

\* Number.parseInt(value, radix) on a trimmed string: Null for NaN, else
\* <<double>>
ParseInt(value, radix) ==
  LET signed == Len(value) >= 1 /\ value[1] \in {"-", "+"}
      neg == signed /\ value[1] = "-"
      p0 == IF signed THEN 2 ELSE 1
      p1 == IF radix = 16 /\ HasLitI(value, p0, <<"0", "x">>) THEN p0 + 2 ELSE p0
  IN Bind(SkipWhile(value, p1, IF radix = 16 THEN HexDigit ELSE DecDigit), LAMBDA p2 :
       IF p2 = p1 THEN Null
       ELSE Bind(SkipWhile(value, p1, {"0"}), LAMBDA z :
              IF p2 - z > MaxDigits(radix) THEN Some(Infinity(neg))
              ELSE Some(RoundToDouble(neg, DigitsValue(value, z, p2 - 1, radix)))))

\* Number.isFinite(parsed), parsed Null or <<double>>
IsFinite(parsed) == parsed # Null /\ ~parsed[1].infinite

\* x | 0 for a finite double x: the low 32 bits of mantissa * 2^exponent,
\* negated for a negative x, read as a two-complement integer
DoubleToInt32(x) ==
  IF x.exponent >= 32 THEN 0
  ELSE LET q == x.exponent \div 16
           r == x.exponent % 16
           low == [j \in 1..2 |->
                     (Limb(x.mantissa, j - q) % Pow(2, 16 - r)) * Pow(2, r)
                     + (Limb(x.mantissa, j - q - 1) \div Pow(2, 16 - r))]
       IN ToInt32(IF x.negative THEN WNeg(<<low[2], low[1]>>) ELSE <<low[2], low[1]>>)

\* /^-?0x[0-9a-fA-F]+$/
IsHexLiteral(value) ==
  LET p0 == IF Len(value) >= 1 /\ value[1] = "-" THEN 2 ELSE 1
      p1 == p0 + 2
  IN /\ p1 <= Len(value)
     /\ value[p0] = "0"
     /\ value[p0 + 1] = "x"
     /\ SkipWhile(value, p1, HexDigit) = Len(value) + 1

\* Null, or <<n>> with n the parsed value as a 32-bit integer
parseMipsNumber(raw) ==
  Bind(Trim(raw), LAMBDA value :
    IF value = <<>> THEN Null
    ELSE Bind(IF IsHexLiteral(value) THEN ParseInt(value, 16) ELSE ParseInt(value, 10),
              LAMBDA parsed :
                IF ~IsFinite(parsed) THEN Null ELSE Some(DoubleToInt32(parsed[1]))))

\* address | 0, address a wide number
sanitizeMipsMemoryAddress(address) == ToInt32(address)

\* String(n) for a 32-bit integer n
RECURSIVE NatString(_)
NatString(n) ==
  IF n < 10 THEN <<CharTable[49 + n]>>
  ELSE Append(NatString(n \div 10), CharTable[49 + (n % 10)])

NumberString(number) ==
  Bind(number, LAMBDA n :
    IF n >= 0 THEN NatString(n)
    ELSE LET d == (10 - (n % 10)) % 10
             rest == 0 - ((n + d) \div 10)
         IN <<"-">> \o (IF rest = 0 THEN <<>> ELSE NatString(rest))
                   \o <<CharTable[49 + d]>>)

\* String.fromCharCode(code) for code in 0..255
FromCharCode(code) == CharTable[code + 1]

(***************************************************************************)
(* Pattern matching.  A cursor is a position of the text, 0 once the match *)
(* has failed.  In every pattern below a repeated class and the token that *)
(* follows it are disjoint, so the greedy match is the only match.         *)
(***************************************************************************)
\* a literal, letters compared case-insensitively
Lit(s, p, lit) == IF p # 0 /\ HasLitI(s, p, lit) THEN p + Len(lit) ELSE 0

\* one or more characters of class C
Many1(s, p, C) ==
  IF p = 0 THEN 0
  ELSE LET q == SkipWhile(s, p, C) IN IF q > p THEN q ELSE 0

\* zero or more characters of class C
Many0(s, p, C) == IF p = 0 THEN 0 ELSE SkipWhile(s, p, C)

\* (\$\w+)
RegTok(s, p) == Many1(s, Lit(s, p, <<"$">>), Word)

\* \s*,\s*
CommaTok(s, p) == Many0(s, Lit(s, Many0(s, p, Space), <<",">>), Space)

\* ([A-Za-z_.$][\w.$]*)
LabelTok(s, p) ==
  IF p # 0 /\ p <= Len(s) /\ s[p] \in LabelStart
  THEN SkipWhile(s, p + 1, LabelRest) ELSE 0

AtEnd(s, p) == p = Len(s) + 1

\* the start of the group (.+)$ that follows a \s* ending at q, the \s* having
\* started at p; 0 when there is none
DotTail(s, p, q) ==
  IF q = 0 THEN 0
  ELSE LET from == IF q <= Len(s) THEN q ELSE IF q > p THEN q - 1 ELSE 0
       IN IF from # 0 /\ \A k \in from..Len(s) : s[k] \in Dot THEN from ELSE 0

\* /^li\s+(\$\w+)\s*,\s*([^,\s]+)$/i
MatchLi(inst) ==
  Bind(Many1(inst, Lit(inst, 1, <<"l", "i">>), Space), LAMBDA a :
  Bind(RegTok(inst, a), LAMBDA b :
  Bind(CommaTok(inst, b), LAMBDA c :
  Bind(Many1(inst, c, NotCommaSpace), LAMBDA d :
    IF AtEnd(inst, d) THEN <<SubSeq(inst, a, b - 1), SubSeq(inst, c, d - 1)>>
    ELSE Null))))

\* /^la\s+(\$\w+)\s*,\s*([A-Za-z_.$][\w.$]*)$/i
MatchLa(inst) ==
  Bind(Many1(inst, Lit(inst, 1, <<"l", "a">>), Space), LAMBDA a :
  Bind(RegTok(inst, a), LAMBDA b :
  Bind(CommaTok(inst, b), LAMBDA c :
  Bind(LabelTok(inst, c), LAMBDA d :
    IF AtEnd(inst, d) THEN <<SubSeq(inst, a, b - 1), SubSeq(inst, c, d - 1)>>
    ELSE Null))))

\* /^move\s+(\$\w+)\s*,\s*(\$\w+)$/i
MatchMove(inst) ==
  Bind(Many1(inst, Lit(inst, 1, <<"m", "o", "v", "e">>), Space), LAMBDA a :
  Bind(RegTok(inst, a), LAMBDA b :
  Bind(CommaTok(inst, b), LAMBDA c :
  Bind(RegTok(inst, c), LAMBDA d :
    IF AtEnd(inst, d) THEN <<SubSeq(inst, a, b - 1), SubSeq(inst, c, d - 1)>>
    ELSE Null))))

\* /^addi\s+(\$\w+)\s*,\s*(\$\w+)\s*,\s*([^,\s]+)$/i
MatchAddi(inst) ==
  Bind(Many1(inst, Lit(inst, 1, <<"a", "d", "d", "i">>), Space), LAMBDA a :
  Bind(RegTok(inst, a), LAMBDA b :
  Bind(CommaTok(inst, b), LAMBDA c :
  Bind(RegTok(inst, c), LAMBDA d :
  Bind(CommaTok(inst, d), LAMBDA e :
  Bind(Many1(inst, e, NotCommaSpace), LAMBDA f :
    IF AtEnd(inst, f)
    THEN <<SubSeq(inst, a, b - 1), SubSeq(inst, c, d - 1), SubSeq(inst, e, f - 1)>>
    ELSE Null))))))

\* /^(m1|m2)\s+(\$\w+)\s*,\s*(\$\w+)\s*,\s*<last>$/i for two three-letter
\* mnemonics, <last> a register (isLabel FALSE) or a label (isLabel TRUE)
MatchThree(inst, m1, m2, isLabel) ==
  Bind(IF Lit(inst, 1, m1) # 0 THEN 4 ELSE Lit(inst, 1, m2), LAMBDA m :
  Bind(Many1(inst, m, Space), LAMBDA a :
  Bind(RegTok(inst, a), LAMBDA b :
  Bind(CommaTok(inst, b), LAMBDA c :
  Bind(RegTok(inst, c), LAMBDA d :
  Bind(CommaTok(inst, d), LAMBDA e :
  Bind(IF isLabel THEN LabelTok(inst, e) ELSE RegTok(inst, e), LAMBDA f :
    IF AtEnd(inst, f)
    THEN <<SubSeq(inst, 1, 3), SubSeq(inst, a, b - 1), SubSeq(inst, c, d - 1),
           SubSeq(inst, e, f - 1)>>
    ELSE Null)))))))

\* /^(add|sub)\s+(\$\w+)\s*,\s*(\$\w+)\s*,\s*(\$\w+)$/i
MatchArithmetic(inst) == MatchThree(inst, <<"a", "d", "d">>, <<"s", "u", "b">>, FALSE)

\* /^lw\s+(\$\w+)\s*,\s*(.+)$/i and /^sw\s+(\$\w+)\s*,\s*(.+)$/i
MatchMem(inst, mnemonic) ==
  Bind(Many1(inst, Lit(inst, 1, mnemonic), Space), LAMBDA a :
  Bind(RegTok(inst, a), LAMBDA b :
  Bind(Lit(inst, Many0(inst, b, Space), <<",">>), LAMBDA c :
  Bind(DotTail(inst, c, Many0(inst, c, Space)), LAMBDA d :
    IF d # 0 THEN <<SubSeq(inst, a, b - 1), SubSeq(inst, d, Len(inst))>> ELSE Null))))

MatchLw(inst) == MatchMem(inst, <<"l", "w">>)

MatchSw(inst) == MatchMem(inst, <<"s", "w">>)

\* /^(beq|bne)\s+(\$\w+)\s*,\s*(\$\w+)\s*,\s*([A-Za-z_.$][\w.$]*)$/i
MatchBranch(inst) == MatchThree(inst, <<"b", "e", "q">>, <<"b", "n", "e">>, TRUE)

\* /^j\s+([A-Za-z_.$][\w.$]*)$/i
MatchJump(inst) ==
  Bind(Many1(inst, Lit(inst, 1, <<"j">>), Space), LAMBDA a :
  Bind(LabelTok(inst, a), LAMBDA b :
    IF AtEnd(inst, b) THEN <<SubSeq(inst, a, b - 1)>> ELSE Null))

\* /^syscall$/i
MatchSyscall(inst) ==
  AtEnd(inst, Lit(inst, 1, <<"s", "y", "s", "c", "a", "l", "l">>))

\* /^(.+)\((\$\w+)\)$/ : the text ends with ($name), something before it
MatchOffsetBase(operand) ==
  Bind(Len(operand), LAMBDA n :
  Bind(SkipBack(operand, n - 1, Word), LAMBDA w :
    IF /\ n >= 1 /\ operand[n] = ")"
       /\ w < n - 1 /\ w >= 3
       /\ operand[w] = "$" /\ operand[w - 1] = "("
       /\ \A k \in 1..(w - 2) : operand[k] \in Dot
    THEN <<SubSeq(operand, 1, w - 2), SubSeq(operand, w, n - 1)>>
    ELSE Null))

\* /^([A-Za-z_.$][\w.$]*):\s*(.*)$/
MatchInlineLabel(line) ==
  Bind(LabelTok(line, 1), LAMBDA a :
  Bind(Many0(line, Lit(line, a, <<":">>), Space), LAMBDA b :
    IF b # 0 /\ \A k \in b..Len(line) : line[k] \in Dot
    THEN <<SubSeq(line, 1, a - 1), SubSeq(line, b, Len(line))>>
    ELSE Null))

\* /^\.globl\b/i
MatchGlobl(line) ==
  Bind(Lit(line, 1, <<".", "g", "l", "o", "b", "l">>), LAMBDA a :
    a # 0 /\ (a > Len(line) \/ line[a] \notin Word))

\* /^\.asciiz\s+"([\s\S]*)"$/i
MatchAsciiz(line) ==
  Bind(Many1(line, Lit(line, 1, <<".", "a", "s", "c", "i", "i", "z">>), Space), LAMBDA a :
  Bind(Lit(line, a, <<"\"">>), LAMBDA b :
    IF b # 0 /\ b <= Len(line) /\ line[Len(line)] = "\""
    THEN <<SubSeq(line, b, Len(line) - 1)>>
    ELSE Null))

\* /^\.word\s+(.+)$/i
MatchWord(line) ==
  Bind(Lit(line, 1, <<".", "w", "o", "r", "d">>), LAMBDA a :
  Bind(Many1(line, a, Space), LAMBDA b :
  Bind(IF b = 0 THEN 0
       ELSE IF b <= Len(line) THEN b
       ELSE IF b - a >= 2 THEN b - 1 ELSE 0, LAMBDA c :
    IF c # 0 /\ \A k \in c..Len(line) : line[k] \in Dot
    THEN <<SubSeq(line, c, Len(line))>>
    ELSE Null)))

\* the least element of a non-empty set of integers
Least(S) == CHOOSE i \in S : \A j \in S : i <= j

\* text.replace(/#.*$/, '')
StripComment(text) ==
  Bind(text, LAMBDA line :
  Bind({i \in 1..Len(line) :
          line[i] = "#" /\ \A k \in (i + 1)..Len(line) : line[k] \in Dot}, LAMBDA starts :
    IF starts = {} THEN line ELSE SubSeq(line, 1, Least(starts) - 1)))

\* text.split(sep) for a one-character separator
RECURSIVE Split(_, _)
Split(textArg, sep) ==
  Bind(textArg, LAMBDA text :
  Bind({i \in 1..Len(text) : text[i] = sep}, LAMBDA hits :
    IF hits = {} THEN <<text>>
    ELSE Bind(Least(hits), LAMBDA i :
           <<SubSeq(text, 1, i - 1)>> \o Split(SubSeq(text, i + 1, Len(text)), sep))))

\* text.replace that leaves the text as it is
ReplaceEscape_Keep(textArg, x, to) == textArg

\* text.replace(/\\x/g, to) for a character x: every backslash-x pair, left to right
RECURSIVE ReplaceEscape(_, _, _)
ReplaceEscape(textArg, x, to) ==
  Bind(textArg, LAMBDA text :
    IF Len(text) < 2 THEN text
    ELSE IF text[1] = "\\" /\ text[2] = x
         THEN <<to>> \o ReplaceEscape(SubSeq(text, 3, Len(text)), x, to)
         ELSE <<text[1]>> \o ReplaceEscape(Tail(text), x, to))

NonEmpty(s) == s # <<>>

(***************************************************************************)
(* Maps (JavaScript Map and plain objects used as maps)                    *)
(***************************************************************************)
EmptyMap == [k \in {} |-> 0]

Has(m, k) == k \in DOMAIN m

\* m.get(k): Null when absent, else <<value>>
Get(m, k) == IF k \in DOMAIN m THEN Some(m[k]) ELSE Null

\* m.set(k, v)
Put(m, k, v) == (k :> v) @@ m

\* seq.includes(x)
Includes(seq, x) == \E i \in 1..Len(seq) : seq[i] = x

(***************************************************************************)
(* Constants of the interpreter                                            *)
(***************************************************************************)
MIPS_REGISTERS ==
  <<
     <<"$", "z", "e", "r", "o">>, <<"$", "a", "t">>, <<"$", "v", "0">>, <<"$", "v", "1">>,
     <<"$", "a", "0">>, <<"$", "a", "1">>, <<"$", "a", "2">>, <<"$", "a", "3">>,
     <<"$", "t", "0">>, <<"$", "t", "1">>, <<"$", "t", "2">>, <<"$", "t", "3">>,
     <<"$", "t", "4">>, <<"$", "t", "5">>, <<"$", "t", "6">>, <<"$", "t", "7">>,
     <<"$", "t", "8">>, <<"$", "t", "9">>, <<"$", "s", "0">>, <<"$", "s", "1">>,
     <<"$", "s", "2">>, <<"$", "s", "3">>, <<"$", "s", "4">>, <<"$", "s", "5">>,
     <<"$", "s", "6">>, <<"$", "s", "7">>, <<"$", "k", "0">>, <<"$", "k", "1">>,
     <<"$", "g", "p">>, <<"$", "s", "p">>, <<"$", "f", "p">>, <<"$", "r", "a">>
  >>

MIPS_REGISTER_SET == {MIPS_REGISTERS[i] : i \in 1..Len(MIPS_REGISTERS)}

\* the zero register under its numeric name, which MIPS_REGISTERS does not hold
ZeroReg_Numeric == <<"$", "0">>

ZeroReg == <<"$", "z", "e", "r", "o">>

V0Reg == <<"$", "v", "0">>

A0Reg == <<"$", "a", "0">>

MIPS_MAX_STEPS == 10000

\* 0x10010000
MIPS_DATA_BASE == 268500992

NoInstructionsMessage ==
  <<"N", "o", " ", "M", "I", "P", "S", " ", "i", "n", "s", "t", "r", "u", "c", "t", "i", "o", "n", "s", " ", "f", "o", "u", "n", "d", " ", "i", "n", " ", ".", "t", "e", "x", "t", " ", "s", "e", "c", "t", "i", "o", "n", ".">>

TimedOutMessage ==
  <<"M", "I", "P", "S", " ", "e", "x", "e", "c", "u", "t", "i", "o", "n", " ", "t", "i", "m", "e", "d", " ", "o", "u", "t", ".">>

InvalidImmediatePrefix == <<"I", "n", "v", "a", "l", "i", "d", " ", "i", "m", "m", "e", "d", "i", "a", "t", "e", " ", "v", "a", "l", "u", "e", ":", " ">>

UnknownDataLabelPrefix == <<"U", "n", "k", "n", "o", "w", "n", " ", "d", "a", "t", "a", " ", "l", "a", "b", "e", "l", ":", " ">>

InvalidMemoryOperandPrefix == <<"I", "n", "v", "a", "l", "i", "d", " ", "m", "e", "m", "o", "r", "y", " ", "o", "p", "e", "r", "a", "n", "d", ":", " ">>

UnknownLabelPrefix == <<"U", "n", "k", "n", "o", "w", "n", " ", "l", "a", "b", "e", "l", ":", " ">>

UnsupportedSyscallPrefix == <<"U", "n", "s", "u", "p", "p", "o", "r", "t", "e", "d", " ", "s", "y", "s", "c", "a", "l", "l", ":", " ">>

UnsupportedInstructionPrefix ==
  <<"U", "n", "s", "u", "p", "p", "o", "r", "t", "e", "d", " ", "i", "n", "s", "t", "r", "u", "c", "t", "i", "o", "n", ":", " ">>

(***************************************************************************)
(* Program loader                                                          *)
(***************************************************************************)
\* labelKinds tells, for the labels whose target is not an integer of
\* magnitude below 2^53, how the integer held in labels is read (see pcKind);
\* the loader records instruction indices, so its programs have none
EmptyProgram ==
  [instructions |-> <<>>, labels |-> EmptyMap, labelKinds |-> EmptyMap,
   dataByAddress |-> EmptyMap, dataAddresses |-> EmptyMap]

\* how the target of a label of the program is read
LabelKind(program, label) ==
  IF Has(program.labelKinds, label) THEN program.labelKinds[label] ELSE "integer"

\* the loader's locals before the first line
LoaderStart ==
  [labels |-> EmptyMap, instructions |-> <<>>, dataByAddress |-> EmptyMap,
   dataAddresses |-> EmptyMap, nextDataAddress |-> MIPS_DATA_BASE, inText |-> FALSE]

\* source.split('\n').map(strip comment, trim).filter(non-empty)
RawLines(source) ==
  Bind(Split(source, "\n"), LAMBDA parts :
    SelectSeq([i \in 1..Len(parts) |-> Trim(StripComment(parts[i]))], NonEmpty))

\* the address a data declaration is placed at:
\* dataAddresses.get(inlineLabel?.[1] ?? '') ?? nextDataAddress
DeclAddress(st, inlineLabel) ==
  IF inlineLabel # Null /\ Has(st.dataAddresses, inlineLabel[1])
  THEN st.dataAddresses[inlineLabel[1]]
  ELSE st.nextDataAddress

\* a line of the data segment, its label (if any) already recorded
LoadDataLine(st, line, inlineLabel) ==
  Bind(MatchAsciiz(line), LAMBDA asciiz :
  Bind(DeclAddress(st, inlineLabel), LAMBDA address :
    IF asciiz # Null
    THEN Bind(ReplaceEscape(ReplaceEscape(asciiz[1], "n", "\n"), "\"", "\""),
              LAMBDA normalized :
                [st EXCEPT !.dataByAddress = Put(@, address, normalized),
                           !.nextDataAddress = address + Len(normalized) + 1])
    ELSE Bind(MatchWord(line), LAMBDA words :
           IF words # Null
           THEN Bind(Split(words[1], ","), LAMBDA parts :
                Bind(SelectSeq([i \in 1..Len(parts) |-> Trim(parts[i])], NonEmpty),
                     LAMBDA values :
                       [st EXCEPT !.nextDataAddress =
                          address + ((IF Len(values) > 1 THEN Len(values) ELSE 1) * 4)]))
           ELSE st)))

\* labels of the data segment recorded in the label table of the text segment
\* as well
RecordLabel_SharedTable(st, inlineLabel) ==
  IF inlineLabel = Null THEN st
  ELSE IF st.inText
  THEN [st EXCEPT !.labels = Put(@, inlineLabel[1], Len(st.instructions))]
  ELSE IF ~Has(st.dataAddresses, inlineLabel[1])
  THEN [st EXCEPT !.dataAddresses = Put(@, inlineLabel[1], st.nextDataAddress),
                  !.labels = Put(@, inlineLabel[1], Len(st.instructions))]
  ELSE st

\* labels recorded with instruction indices that count from 1
RecordLabel_CountsFromOne(st, inlineLabel) ==
  IF inlineLabel = Null THEN st
  ELSE IF st.inText
  THEN [st EXCEPT !.labels = Put(@, inlineLabel[1], Len(st.instructions) + 1)]
  ELSE IF ~Has(st.dataAddresses, inlineLabel[1])
  THEN [st EXCEPT !.dataAddresses = Put(@, inlineLabel[1], st.nextDataAddress)]
  ELSE st

\* the label of a line recorded: labels.set(...) in .text, dataAddresses.set(...)
\* of a name not yet bound in .data
RecordLabel(st, inlineLabel) ==
  IF inlineLabel = Null THEN st
  ELSE IF st.inText
  THEN [st EXCEPT !.labels = Put(@, inlineLabel[1], Len(st.instructions))]
  ELSE IF ~Has(st.dataAddresses, inlineLabel[1])
  THEN [st EXCEPT !.dataAddresses = Put(@, inlineLabel[1], st.nextDataAddress)]
  ELSE st

\* one iteration of the loop over rawLines
LoadLine(st, rawLine) ==
  IF rawLine = <<".", "t", "e", "x", "t">> THEN [st EXCEPT !.inText = TRUE]
  ELSE IF rawLine = <<".", "d", "a", "t", "a">> THEN [st EXCEPT !.inText = FALSE]
  ELSE IF MatchGlobl(rawLine) THEN st
  ELSE
    Bind(MatchInlineLabel(rawLine), LAMBDA inlineLabel :
    Bind(RecordLabel(st, inlineLabel), LAMBDA st1 :
    Bind(IF inlineLabel = Null THEN rawLine ELSE Trim(inlineLabel[2]), LAMBDA line :
      IF inlineLabel # Null /\ line = <<>> THEN st1
      ELSE IF ~st.inText THEN LoadDataLine(st1, line, inlineLabel)
      ELSE [st1 EXCEPT !.instructions = Append(@, line)])))

\* the loop over rawLines, from line i on
RECURSIVE LoadLines(_, _, _)
LoadLines(st, lines, i) ==
  IF i > Len(lines) THEN st
  ELSE Bind(LoadLine(st, lines[i]), LAMBDA next : LoadLines(next, lines, i + 1))

\* whether inst matches none of the supported instruction forms
Unsupported(inst) ==
  /\ MatchLi(inst) = Null
  /\ MatchLa(inst) = Null
  /\ MatchMove(inst) = Null
  /\ MatchAddi(inst) = Null
  /\ MatchArithmetic(inst) = Null
  /\ MatchLw(inst) = Null
  /\ MatchSw(inst) = Null
  /\ MatchBranch(inst) = Null
  /\ MatchJump(inst) = Null
  /\ ~MatchSyscall(inst)

\* a loader that decodes every instruction and rejects a source with one that
\* matches no supported form
parseMipsProgram_ValidatesInstructions(source) ==
  Bind(RawLines(source), LAMBDA rawLines :
  Bind(LoadLines(LoaderStart, rawLines, 1), LAMBDA st :
    IF Len(st.instructions) = 0
    THEN [ok |-> FALSE, error |-> NoInstructionsMessage]
    ELSE IF \E i \in 1..Len(st.instructions) : Unsupported(st.instructions[i])
    THEN [ok |-> FALSE, error |-> UnsupportedInstructionPrefix]
    ELSE [ok |-> TRUE,
          program |-> [instructions |-> st.instructions, labels |-> st.labels,
                       labelKinds |-> EmptyMap,
                       dataByAddress |-> st.dataByAddress,
                       dataAddresses |-> st.dataAddresses]]))

\* [ok |-> TRUE, program |-> ...] or [ok |-> FALSE, error |-> ...]
parseMipsProgram(source) ==
  Bind(RawLines(source), LAMBDA rawLines :
  Bind(LoadLines(LoaderStart, rawLines, 1), LAMBDA st :
    IF Len(st.instructions) = 0
    THEN [ok |-> FALSE, error |-> NoInstructionsMessage]
    ELSE [ok |-> TRUE,
          program |-> [instructions |-> st.instructions, labels |-> st.labels,
                       labelKinds |-> EmptyMap,
                       dataByAddress |-> st.dataByAddress,
                       dataAddresses |-> st.dataAddresses]]))

(***************************************************************************)
(* Machine state                                                           *)
(***************************************************************************)
ZeroRegisters == [reg \in MIPS_REGISTER_SET |-> 0]

\* the loop over Object.entries(initialRegisters); an entry is <<name, wide value>>
RECURSIVE InitRegisters(_, _, _)
InitRegisters(registers, entries, i) ==
  IF i > Len(entries) THEN registers
  ELSE LET reg == entries[i][1]
           value == entries[i][2]
       IN Bind(IF reg \in MIPS_REGISTER_SET /\ reg # ZeroReg
               THEN [registers EXCEPT ![reg] = ToInt32(value)]
               ELSE registers,
               LAMBDA next : InitRegisters(next, entries, i + 1))

\* initial memory stored under the key text as the caller wrote it
RECURSIVE InitMemory_KeepsKeyText(_, _, _)
InitMemory_KeepsKeyText(memory, entries, i) ==
  IF i > Len(entries) THEN memory
  ELSE Bind(parseMipsNumber(entries[i][1]), LAMBDA parsedAddress :
       Bind(IF parsedAddress = Null THEN memory
            ELSE Put(memory, Trim(entries[i][1]), ToInt32(entries[i][2])),
            LAMBDA next : InitMemory_KeepsKeyText(next, entries, i + 1)))

\* the loop over Object.entries(initialMemory); an entry is <<key text, wide value>>
RECURSIVE InitMemory(_, _, _)
InitMemory(memory, entries, i) ==
  IF i > Len(entries) THEN memory
  ELSE Bind(parseMipsNumber(entries[i][1]), LAMBDA parsedAddress :
       Bind(IF parsedAddress = Null THEN memory
            ELSE Put(memory,
                     NumberString(sanitizeMipsMemoryAddress(WOfInt(parsedAddress[1]))),
                     ToInt32(entries[i][2])),
            LAMBDA next : InitMemory(next, entries, i + 1)))

\* initializeMipsMachine that returns a ready machine with an empty program
\* when loading fails
initializeMipsMachine_EmptyIsReady(source, initialRegisters, initialMemory) ==
  Bind(parseMipsProgram(source), LAMBDA parsed :
    IF ~parsed.ok
    THEN [source |-> source, program |-> EmptyProgram, registers |-> ZeroRegisters,
          memory |-> EmptyMap, output |-> <<>>, status |-> "ready",
          error |-> parsed.error, pc |-> 0, pcKind |-> "integer",
          steps |-> 0, stepsKind |-> "integer",
          touchedRegisters |-> <<>>, touchedMemory |-> <<>>]
    ELSE [source |-> source, program |-> parsed.program,
          registers |-> Put(InitRegisters(ZeroRegisters, initialRegisters, 1),
                            ZeroReg, 0),
          memory |-> InitMemory(EmptyMap, initialMemory, 1),
          output |-> <<>>, status |-> "ready", error |-> <<>>, pc |-> 0, pcKind |-> "integer",
          steps |-> 0, stepsKind |-> "integer",
          touchedRegisters |-> <<>>, touchedMemory |-> <<>>])

initializeMipsMachine(source, initialRegisters, initialMemory) ==
  Bind(parseMipsProgram(source), LAMBDA parsed :
    IF ~parsed.ok
    THEN [source |-> source, program |-> EmptyProgram, registers |-> ZeroRegisters,
          memory |-> EmptyMap, output |-> <<>>, status |-> "error",
          error |-> parsed.error, pc |-> 0, pcKind |-> "integer",
          steps |-> 0, stepsKind |-> "integer",
          touchedRegisters |-> <<>>, touchedMemory |-> <<>>]
    ELSE [source |-> source, program |-> parsed.program,
          registers |-> Put(InitRegisters(ZeroRegisters, initialRegisters, 1),
                            ZeroReg, 0),
          memory |-> InitMemory(EmptyMap, initialMemory, 1),
          output |-> <<>>, status |-> "ready", error |-> <<>>, pc |-> 0, pcKind |-> "integer",
          steps |-> 0, stepsKind |-> "integer",
          touchedRegisters |-> <<>>, touchedMemory |-> <<>>])

(***************************************************************************)
(* Instruction executor                                                    *)
(***************************************************************************)
\* machine.registers[name] ?? 0
readMipsRegister(m, name) ==
  IF name \in DOMAIN m.registers THEN m.registers[name] ELSE 0

\* a write that is dropped for $zero only, and creates any other register named
writeMipsRegister_CreatesRegister(m, name, value) ==
  IF name = ZeroReg THEN m
  ELSE [m EXCEPT !.registers = Put(@, name, ToInt32(WOfInt(value))),
                 !.touchedRegisters =
                   IF Includes(@, name) THEN @ ELSE Append(@, name)]

\* a write that is skipped when the register is listed in touchedRegisters
writeMipsRegister_SkipsTouched(m, name, value) ==
  IF name \notin MIPS_REGISTER_SET \/ name = ZeroReg THEN m
  ELSE IF Includes(m.touchedRegisters, name) THEN m
  ELSE [m EXCEPT !.registers = Put(@, name, ToInt32(WOfInt(value))),
                 !.touchedRegisters = Append(@, name)]

\* value is a 32-bit integer at every call; value | 0 is applied all the same
writeMipsRegister(m, name, value) ==
  IF name \notin MIPS_REGISTER_SET \/ name = ZeroReg THEN m
  ELSE [m EXCEPT !.registers = Put(@, name, ToInt32(WOfInt(value))),
                 !.touchedRegisters =
                   IF Includes(@, name) THEN @ ELSE Append(@, name)]

\* Null, or <<address>>
parseMipsAddressOperand(m, operand) ==
  Bind(MatchOffsetBase(operand), LAMBDA offsetBase :
    IF offsetBase # Null
    THEN Bind(parseMipsNumber(Trim(offsetBase[1])), LAMBDA offset :
         Bind(Trim(offsetBase[2]), LAMBDA base :
           IF offset = Null \/ base \notin MIPS_REGISTER_SET THEN Null
           ELSE Some(sanitizeMipsMemoryAddress(
                       WAdd(WOfInt(readMipsRegister(m, base)), WOfInt(offset[1]))))))
    ELSE IF Has(m.program.dataAddresses, operand)
    THEN Some(m.program.dataAddresses[operand])
    ELSE Bind(parseMipsNumber(operand), LAMBDA direct :
           IF direct = Null THEN Null
           ELSE Some(sanitizeMipsMemoryAddress(WOfInt(direct[1])))))

\* appendMipsOutput that assigns the text instead of appending it
appendMipsOutput_Assigns(m, text) == [m EXCEPT !.output = text]

appendMipsOutput(m, text) == [m EXCEPT !.output = @ \o text]

\* fail that sets the status and leaves the error text as it was
Fail_KeepsError(m, message) == [m EXCEPT !.status = "error"]

\* fail that steps over the failing instruction
Fail_AdvancesPc(m, message) ==
  [m EXCEPT !.status = "error", !.error = message, !.pc = @ + 1]

\* fail(message)
Fail(m, message) == [m EXCEPT !.status = "error", !.error = message]

\* machine.pc += 1
AdvancePc(m) == [m EXCEPT !.pc = @ + 1]

\* machine.registers.$zero = 0
ClearZero(m) == [m EXCEPT !.registers = Put(@, ZeroReg, 0)]

\* touchedMemory.push(key) on every access
TouchMemory_PushesAlways(m, key) ==
  [m EXCEPT !.touchedMemory = Append(@, key)]

\* touchedMemory.push(key) unless included
TouchMemory(m, key) ==
  [m EXCEPT !.touchedMemory = IF Includes(@, key) THEN @ ELSE Append(@, key)]

\* the end of every instruction but a jump or a taken branch:
\* machine.pc += 1; machine.registers.$zero = 0; return machine
Done(m) == ClearZero(AdvancePc(m))

ExecLi(m, li) ==
  Bind(parseMipsNumber(li[2]), LAMBDA value :
    IF value = Null THEN Fail(m, InvalidImmediatePrefix \o li[2])
    ELSE Done(writeMipsRegister(m, li[1], value[1])))

ExecLa(m, la) ==
  Bind(Get(m.program.dataAddresses, la[2]), LAMBDA address :
    IF address = Null THEN Fail(m, UnknownDataLabelPrefix \o la[2])
    ELSE Done(writeMipsRegister(m, la[1], address[1])))

ExecMove(m, move) ==
  Done(writeMipsRegister(m, move[1], readMipsRegister(m, move[2])))

ExecAddi(m, addi) ==
  Bind(parseMipsNumber(addi[3]), LAMBDA immediate :
    IF immediate = Null THEN Fail(m, InvalidImmediatePrefix \o addi[3])
    ELSE Done(writeMipsRegister(m, addi[1],
           ToInt32(WAdd(WOfInt(readMipsRegister(m, addi[2])), WOfInt(immediate[1]))))))

\* add/sub that fail when the result leaves the signed 32-bit range
ExecArithmetic_OverflowTraps(m, arithmetic) ==
  LET lhs == readMipsRegister(m, arithmetic[3])
      rhs == readMipsRegister(m, arithmetic[4])
      next == IF LowerCase(arithmetic[1]) = <<"a", "d", "d">>
              THEN WAdd(WOfInt(lhs), WOfInt(rhs))
              ELSE WSub(WOfInt(lhs), WOfInt(rhs))
  IN IF WOfInt(ToInt32(next)) # next
     THEN Fail(m, <<"o", "v", "e", "r", "f", "l", "o", "w">>)
     ELSE Done(writeMipsRegister(m, arithmetic[2], ToInt32(next)))

ExecArithmetic(m, arithmetic) ==
  LET lhs == readMipsRegister(m, arithmetic[3])
      rhs == readMipsRegister(m, arithmetic[4])
      next == IF LowerCase(arithmetic[1]) = <<"a", "d", "d">>
              THEN WAdd(WOfInt(lhs), WOfInt(rhs))
              ELSE WSub(WOfInt(lhs), WOfInt(rhs))
  IN Done(writeMipsRegister(m, arithmetic[2], ToInt32(next)))

\* lw that looks memory up under the operand text
ExecLw_KeyIsOperand(m, lw) ==
  Bind(parseMipsAddressOperand(m, Trim(lw[2])), LAMBDA address :
    IF address = Null THEN Fail(m, InvalidMemoryOperandPrefix \o lw[2])
    ELSE Bind(NumberString(address[1]), LAMBDA key :
           Done(TouchMemory(
                  writeMipsRegister(m, lw[1],
                                    IF Has(m.memory, Trim(lw[2]))
                                    THEN m.memory[Trim(lw[2])] ELSE 0),
                  key))))

\* lw that records the word it has read in memory
ExecLw_StoresLoadedCell(m, lw) ==
  Bind(parseMipsAddressOperand(m, Trim(lw[2])), LAMBDA address :
    IF address = Null THEN Fail(m, InvalidMemoryOperandPrefix \o lw[2])
    ELSE Bind(NumberString(address[1]), LAMBDA key :
         Bind(IF Has(m.memory, key) THEN m.memory[key] ELSE 0, LAMBDA word :
           Done(TouchMemory(
                  writeMipsRegister([m EXCEPT !.memory = Put(@, key, word)],
                                    lw[1], word),
                  key)))))

ExecLw(m, lw) ==
  Bind(parseMipsAddressOperand(m, Trim(lw[2])), LAMBDA address :
    IF address = Null THEN Fail(m, InvalidMemoryOperandPrefix \o lw[2])
    ELSE Bind(NumberString(address[1]), LAMBDA key :
           Done(TouchMemory(
                  writeMipsRegister(m, lw[1],
                                    IF Has(m.memory, key) THEN m.memory[key] ELSE 0),
                  key))))

\* sw that stores at the address in the base register, whatever the offset
ExecSw_IgnoresOffset(m, sw) ==
  Bind(parseMipsAddressOperand(m, Trim(sw[2])), LAMBDA address :
    IF address = Null THEN Fail(m, InvalidMemoryOperandPrefix \o sw[2])
    ELSE Bind(MatchOffsetBase(Trim(sw[2])), LAMBDA offsetBase :
         Bind(NumberString(IF offsetBase = Null THEN address[1]
                           ELSE readMipsRegister(m, Trim(offsetBase[2]))),
              LAMBDA key :
           Done(TouchMemory(
                  [m EXCEPT !.memory =
                     Put(@, key, ToInt32(WOfInt(readMipsRegister(m, sw[1]))))],
                  key)))))

\* sw that also overwrites the data-segment entry at the address
ExecSw_WritesDataSegment(m, sw) ==
  Bind(parseMipsAddressOperand(m, Trim(sw[2])), LAMBDA address :
    IF address = Null THEN Fail(m, InvalidMemoryOperandPrefix \o sw[2])
    ELSE Bind(NumberString(address[1]), LAMBDA key :
           Done(TouchMemory(
                  [m EXCEPT !.memory =
                     Put(@, key, ToInt32(WOfInt(readMipsRegister(m, sw[1])))),
                            !.program.dataByAddress = Put(@, address[1], <<>>)],
                  key))))

ExecSw(m, sw) ==
  Bind(parseMipsAddressOperand(m, Trim(sw[2])), LAMBDA address :
    IF address = Null THEN Fail(m, InvalidMemoryOperandPrefix \o sw[2])
    ELSE Bind(NumberString(address[1]), LAMBDA key :
           Done(TouchMemory(
                  [m EXCEPT !.memory =
                     Put(@, key, ToInt32(WOfInt(readMipsRegister(m, sw[1]))))],
                  key))))

\* beq/bne whose taken branch lands one instruction past the label
ExecBranch_LandsPastLabel(m, branch) ==
  LET lhs == readMipsRegister(m, branch[2])
      rhs == readMipsRegister(m, branch[3])
      shouldBranch == IF LowerCase(branch[1]) = <<"b", "e", "q">>
                      THEN lhs = rhs ELSE lhs # rhs
  IN IF shouldBranch
     THEN Bind(Get(m.program.labels, branch[4]), LAMBDA target :
            IF target = Null THEN Fail(m, UnknownLabelPrefix \o branch[4])
            ELSE ClearZero([m EXCEPT !.pc = target[1] + 1,
                                     !.pcKind = LabelKind(m.program, branch[4])]))
     ELSE Done(m)

ExecBranch(m, branch) ==
  LET lhs == readMipsRegister(m, branch[2])
      rhs == readMipsRegister(m, branch[3])
      shouldBranch == IF LowerCase(branch[1]) = <<"b", "e", "q">>
                      THEN lhs = rhs ELSE lhs # rhs
  IN IF shouldBranch
     THEN Bind(Get(m.program.labels, branch[4]), LAMBDA target :
            IF target = Null THEN Fail(m, UnknownLabelPrefix \o branch[4])
            ELSE ClearZero([m EXCEPT !.pc = target[1],
                                     !.pcKind = LabelKind(m.program, branch[4])]))
     ELSE Done(m)

\* j whose failure message does not name the label
ExecJump_MessageOmitsLabel(m, jump) ==
  Bind(Get(m.program.labels, jump[1]), LAMBDA target :
    IF target = Null THEN Fail(m, UnknownLabelPrefix)
    ELSE ClearZero([m EXCEPT !.pc = target[1],
                             !.pcKind = LabelKind(m.program, jump[1])]))

\* j that fails on a label bound to the instruction count
ExecJump_RejectsEndLabel(m, jump) ==
  Bind(Get(m.program.labels, jump[1]), LAMBDA target :
    IF target = Null THEN Fail(m, UnknownLabelPrefix \o jump[1])
    ELSE IF target[1] >= Len(m.program.instructions)
    THEN Fail(m, UnknownLabelPrefix \o jump[1])
    ELSE ClearZero([m EXCEPT !.pc = target[1],
                             !.pcKind = LabelKind(m.program, jump[1])]))

ExecJump(m, jump) ==
  Bind(Get(m.program.labels, jump[1]), LAMBDA target :
    IF target = Null THEN Fail(m, UnknownLabelPrefix \o jump[1])
    ELSE ClearZero([m EXCEPT !.pc = target[1],
                             !.pcKind = LabelKind(m.program, jump[1])]))

\* syscall whose selector 4 fails when no string is recorded at the address
ExecSyscall_MissingStringFails(m) ==
  Bind(readMipsRegister(m, V0Reg), LAMBDA v0 :
  Bind(readMipsRegister(m, A0Reg), LAMBDA a0 :
    IF v0 = 1 THEN Done(appendMipsOutput(m, NumberString(a0)))
    ELSE IF v0 = 4
    THEN (IF Has(m.program.dataByAddress, a0)
          THEN Done(appendMipsOutput(m, m.program.dataByAddress[a0]))
          ELSE Fail(m, UnknownDataLabelPrefix \o NumberString(a0)))
    ELSE IF v0 = 10 THEN ClearZero([m EXCEPT !.status = "halted"])
    ELSE IF v0 = 11 THEN Done(appendMipsOutput(m, <<FromCharCode(LowByte(a0))>>))
    ELSE Fail(m, UnsupportedSyscallPrefix \o NumberString(v0))))

\* syscall that halts on every selector it does not print for
ExecSyscall_UnknownHalts(m) ==
  Bind(readMipsRegister(m, V0Reg), LAMBDA v0 :
  Bind(readMipsRegister(m, A0Reg), LAMBDA a0 :
    IF v0 = 1 THEN Done(appendMipsOutput(m, NumberString(a0)))
    ELSE IF v0 = 4
    THEN Done(appendMipsOutput(m, IF Has(m.program.dataByAddress, a0)
                                  THEN m.program.dataByAddress[a0] ELSE <<>>))
    ELSE IF v0 = 11 THEN Done(appendMipsOutput(m, <<FromCharCode(LowByte(a0))>>))
    ELSE ClearZero([m EXCEPT !.status = "halted"])))

ExecSyscall(m) ==
  Bind(readMipsRegister(m, V0Reg), LAMBDA v0 :
  Bind(readMipsRegister(m, A0Reg), LAMBDA a0 :
    IF v0 = 1 THEN Done(appendMipsOutput(m, NumberString(a0)))
    ELSE IF v0 = 4
    THEN Done(appendMipsOutput(m, IF Has(m.program.dataByAddress, a0)
                                  THEN m.program.dataByAddress[a0] ELSE <<>>))
    ELSE IF v0 = 10 THEN ClearZero([m EXCEPT !.status = "halted"])
    ELSE IF v0 = 11 THEN Done(appendMipsOutput(m, <<FromCharCode(LowByte(a0))>>))
    ELSE Fail(m, UnsupportedSyscallPrefix \o NumberString(v0))))

\* the instruction matched against the patterns in the order of the code: the
\* first pattern that matches decides
Execute(machineArg, instArg) ==
  Bind(machineArg, LAMBDA m :
  Bind(instArg, LAMBDA inst :
  Bind(MatchLi(inst), LAMBDA li :
    IF li # Null THEN ExecLi(m, li) ELSE
  Bind(MatchLa(inst), LAMBDA la :
    IF la # Null THEN ExecLa(m, la) ELSE
  Bind(MatchMove(inst), LAMBDA move :
    IF move # Null THEN ExecMove(m, move) ELSE
  Bind(MatchAddi(inst), LAMBDA addi :
    IF addi # Null THEN ExecAddi(m, addi) ELSE
  Bind(MatchArithmetic(inst), LAMBDA arithmetic :
    IF arithmetic # Null THEN ExecArithmetic(m, arithmetic) ELSE
  Bind(MatchLw(inst), LAMBDA lw :
    IF lw # Null THEN ExecLw(m, lw) ELSE
  Bind(MatchSw(inst), LAMBDA sw :
    IF sw # Null THEN ExecSw(m, sw) ELSE
  Bind(MatchBranch(inst), LAMBDA branch :
    IF branch # Null THEN ExecBranch(m, branch) ELSE
  Bind(MatchJump(inst), LAMBDA jump :
    IF jump # Null THEN ExecJump(m, jump) ELSE
    IF MatchSyscall(inst) THEN ExecSyscall(m)
    ELSE Fail(m, UnsupportedInstructionPrefix \o inst))))))))))))

(***************************************************************************)
(* pc and steps are JavaScript numbers.  The states the code builds hold   *)
(* integers in them; a state a caller builds may hold any number.  pcKind  *)
(* and stepsKind tell how the integer x in pc and in steps is read:        *)
(*   "integer"    x, an integer of magnitude below 2^53: x + 1 is exact    *)
(*   "half"       x + 0.5, a number that is no integer                     *)
(*   "-huge"      an integer below -2^53 that x + 1 is rounded back to:    *)
(*                every integer at or below -2^54 (-2^54, -1e300), and     *)
(*                between -2^54 and -2^53 the doubles -(2^53 + 4k), k >= 1 *)
(*                (-9007199254740996 + 1 is a tie, rounded to the even     *)
(*                mantissa, which is the number itself) (x is 0)           *)
(*   "-huge-odd"  a double -(2^53 + 4k + 2), k >= 1, between -2^54 and     *)
(*                -2^53: x + 1 is a tie, rounded to -(2^53 + 4k), which is *)
(*                of the kind "-huge" (-9007199254740998 + 1 is            *)
(*                -9007199254740996) (x is 0)                              *)
(*   "NaN", "Infinity", "-Infinity"   that value (x is 0)                  *)
(* Not held are -(2^53 + 2), whose successor in double arithmetic is       *)
(* -2^53, and of the kind "integer" the integers that do not fit 32 bits:  *)
(* those from -2^53 to -2^31, from which the additions of 1, all exact,    *)
(* reach the held ones, and those from 2^31 on, which compare with an      *)
(* instruction count and with MIPS_MAX_STEPS as Infinity does.             *)
(***************************************************************************)
NumberKinds ==
  {"integer", "half", "-huge", "-huge-odd", "NaN", "Infinity", "-Infinity"}

\* x < n for the number x of the kind and an integer n
NumLess(kind, x, n) ==
  IF kind \in {"NaN", "Infinity"} THEN FALSE
  ELSE IF kind \in {"-Infinity", "-huge", "-huge-odd"} THEN TRUE
  ELSE x < n

\* x >= n for the number x of the kind and an integer n
NumAtLeast(kind, x, n) ==
  IF kind \in {"NaN", "-Infinity", "-huge", "-huge-odd"} THEN FALSE
  ELSE IF kind = "Infinity" THEN TRUE
  ELSE x >= n

\* the integer held for x + 1: NaN + 1 is NaN, an infinity + 1 is itself, and
\* the sum of 1 and an integer of a huge kind is rounded to an integer of the
\* kind "-huge"
NumPlusOne(kind, x) == IF kind \in {"integer", "half"} THEN x + 1 ELSE x

\* the kind of x + 1 for a number x of the kind
KindPlusOne(kind) == IF kind = "-huge-odd" THEN "-huge" ELSE kind

\* the call stepMipsMachine(cur) throws a TypeError: the state is ready, both
\* comparisons of the pc range check and the step-bound check fail, and pc is
\* no integer, so that instructions[pc] is undefined and inst.match throws
Throws(cur) ==
  /\ cur.status = "ready"
  /\ ~(NumLess(cur.pcKind, cur.pc, 0)
        \/ NumAtLeast(cur.pcKind, cur.pc, Len(cur.program.instructions)))
  /\ ~NumAtLeast(cur.stepsKind, cur.steps, MIPS_MAX_STEPS)
  /\ cur.pcKind # "integer"

\* stepMipsMachine whose step-bound branch records the message and leaves the status
stepMipsMachine_TimeoutKeepsReady(cur) ==
  IF cur.status # "ready" THEN cur
  ELSE IF NumLess(cur.pcKind, cur.pc, 0)
          \/ NumAtLeast(cur.pcKind, cur.pc, Len(cur.program.instructions))
  THEN [cur EXCEPT !.status = "halted"]
  ELSE IF NumAtLeast(cur.stepsKind, cur.steps, MIPS_MAX_STEPS)
  THEN [cur EXCEPT !.error = TimedOutMessage]
  ELSE IF cur.pcKind # "integer" THEN cur
  ELSE Execute([cur EXCEPT !.steps = NumPlusOne(cur.stepsKind, @),
                           !.stepsKind = KindPlusOne(@)],
               cur.program.instructions[cur.pc + 1])

\* stepMipsMachine that compares steps > MIPS_MAX_STEPS
stepMipsMachine_BoundOffByOne(cur) ==
  IF cur.status # "ready" THEN cur
  ELSE IF NumLess(cur.pcKind, cur.pc, 0)
          \/ NumAtLeast(cur.pcKind, cur.pc, Len(cur.program.instructions))
  THEN [cur EXCEPT !.status = "halted"]
  ELSE IF NumAtLeast(cur.stepsKind, cur.steps, MIPS_MAX_STEPS + 1)
  THEN [cur EXCEPT !.status = "error", !.error = TimedOutMessage]
  ELSE IF cur.pcKind # "integer" THEN cur
  ELSE Execute([cur EXCEPT !.steps = NumPlusOne(cur.stepsKind, @),
                           !.stepsKind = KindPlusOne(@)],
               cur.program.instructions[cur.pc + 1])

\* stepMipsMachine that checks the step bound every second step only
stepMipsMachine_BoundSkipsOdd(cur) ==
  IF cur.status # "ready" THEN cur
  ELSE IF NumLess(cur.pcKind, cur.pc, 0)
          \/ NumAtLeast(cur.pcKind, cur.pc, Len(cur.program.instructions))
  THEN [cur EXCEPT !.status = "halted"]
  ELSE IF NumAtLeast(cur.stepsKind, cur.steps, MIPS_MAX_STEPS + 2)
  THEN [cur EXCEPT !.status = "error", !.error = TimedOutMessage]
  ELSE IF cur.pcKind # "integer" THEN cur
  ELSE Execute([cur EXCEPT !.steps = NumPlusOne(cur.stepsKind, @),
                           !.stepsKind = KindPlusOne(@)],
               cur.program.instructions[cur.pc + 1])

\* stepMipsMachine that counts every call on a ready state, the halting and the
\* timed-out call included
stepMipsMachine_CountsEveryCall(cur) ==
  IF cur.status # "ready" THEN cur
  ELSE IF NumLess(cur.pcKind, cur.pc, 0)
          \/ NumAtLeast(cur.pcKind, cur.pc, Len(cur.program.instructions))
  THEN [cur EXCEPT !.status = "halted", !.steps = NumPlusOne(cur.stepsKind, @),
                   !.stepsKind = KindPlusOne(@)]
  ELSE IF NumAtLeast(cur.stepsKind, cur.steps, MIPS_MAX_STEPS)
  THEN [cur EXCEPT !.status = "error", !.error = TimedOutMessage,
             !.steps = NumPlusOne(cur.stepsKind, @),
             !.stepsKind = KindPlusOne(@)]
  ELSE IF cur.pcKind # "integer" THEN cur
  ELSE Execute([cur EXCEPT !.steps = NumPlusOne(cur.stepsKind, @),
                           !.stepsKind = KindPlusOne(@)],
               cur.program.instructions[cur.pc + 1])

\* stepMipsMachine without the early return on a status other than ready
stepMipsMachine_NoReadyCheck(cur) ==
  IF NumLess(cur.pcKind, cur.pc, 0)
          \/ NumAtLeast(cur.pcKind, cur.pc, Len(cur.program.instructions))
  THEN [cur EXCEPT !.status = "halted"]
  ELSE IF NumAtLeast(cur.stepsKind, cur.steps, MIPS_MAX_STEPS)
  THEN [cur EXCEPT !.status = "error", !.error = TimedOutMessage]
  ELSE IF cur.pcKind # "integer" THEN cur
  ELSE Execute([cur EXCEPT !.steps = NumPlusOne(cur.stepsKind, @),
                           !.stepsKind = KindPlusOne(@)],
               cur.program.instructions[cur.pc + 1])

\* stepMipsMachine that makes the step-bound check before the pc range check
stepMipsMachine_BoundFirst(cur) ==
  IF cur.status # "ready" THEN cur
  ELSE IF NumAtLeast(cur.stepsKind, cur.steps, MIPS_MAX_STEPS)
  THEN [cur EXCEPT !.status = "error", !.error = TimedOutMessage]
  ELSE IF NumLess(cur.pcKind, cur.pc, 0)
          \/ NumAtLeast(cur.pcKind, cur.pc, Len(cur.program.instructions))
  THEN [cur EXCEPT !.status = "halted"]
  ELSE IF cur.pcKind # "integer" THEN cur
  ELSE Execute([cur EXCEPT !.steps = NumPlusOne(cur.stepsKind, @),
                           !.stepsKind = KindPlusOne(@)],
               cur.program.instructions[cur.pc + 1])

\* a call that throws returns no state: the result is taken only when
\* ~Throws(cur), and is cur otherwise
stepMipsMachine(cur) ==
  IF cur.status # "ready" THEN cur
  ELSE IF NumLess(cur.pcKind, cur.pc, 0)
          \/ NumAtLeast(cur.pcKind, cur.pc, Len(cur.program.instructions))
  THEN [cur EXCEPT !.status = "halted"]
  ELSE IF NumAtLeast(cur.stepsKind, cur.steps, MIPS_MAX_STEPS)
  THEN [cur EXCEPT !.status = "error", !.error = TimedOutMessage]
  ELSE IF cur.pcKind # "integer" THEN cur
  ELSE Execute([cur EXCEPT !.steps = NumPlusOne(cur.stepsKind, @),
                           !.stepsKind = KindPlusOne(@)],
               cur.program.instructions[cur.pc + 1])

\* the objects held by its argument that stepMipsMachine copies before it
\* executes an instruction: registers: { ...current.registers }, and so on.
\* The Program object is not among them: ...current hands the reference on
CopiedContainers == {"registers", "memory", "touchedRegisters", "touchedMemory"}

\* the argument object as its holder sees it after the call stepMipsMachine(cur).
\* The instruction works on the copy: an object that was not copied is shared
\* with the argument, which shows whatever the call has written into it (an
\* entry of a Map of the program, an instruction).  pc, steps, status, error
\* and output are numbers and strings assigned on the copy itself.
ArgumentAfter(cur) ==
  Bind(stepMipsMachine(cur), LAMBDA result :
    [cur EXCEPT
       !.program = IF "program" \in CopiedContainers THEN @ ELSE result.program,
       !.registers = IF "registers" \in CopiedContainers THEN @ ELSE result.registers,
       !.memory = IF "memory" \in CopiedContainers THEN @ ELSE result.memory,
       !.touchedRegisters =
         IF "touchedRegisters" \in CopiedContainers THEN @ ELSE result.touchedRegisters,
       !.touchedMemory =
         IF "touchedMemory" \in CopiedContainers THEN @ ELSE result.touchedMemory])

(***************************************************************************)
(* Inputs: source texts, initial register and memory overrides             *)
(***************************************************************************)
\* Scenario A
\*   .data
\*   msg: .asciiz "Hi\n"
\*   .text
\*   li $v0,4
\*   la $a0,msg
\*   syscall
\*   li $v0,10
\*   syscall
HelloSource ==
  <<".", "d", "a", "t", "a", "\n">> \o
  <<"m", "s", "g", ":", " ", ".", "a", "s", "c", "i", "i", "z", " ", "\"", "H", "i", "\\", "n", "\"", "\n">> \o
  <<".", "t", "e", "x", "t", "\n">> \o
  <<"l", "i", " ", "$", "v", "0", ",", "4", "\n">> \o
  <<"l", "a", " ", "$", "a", "0", ",", "m", "s", "g", "\n">> \o
  <<"s", "y", "s", "c", "a", "l", "l", "\n">> \o
  <<"l", "i", " ", "$", "v", "0", ",", "1", "0", "\n">> \o
  <<"s", "y", "s", "c", "a", "l", "l", "\n">>

\* the editor's default MIPS template
\*   .data
\*   message: .asciiz "Hello, world!\n"
\*   
\*   .text
\*   .globl main
\*   main:
\*     li $v0, 4
\*     la $a0, message
\*     syscall
\*   
\*     li $v0, 10
\*     syscall
TemplateSource ==
  <<".", "d", "a", "t", "a", "\n">> \o
  <<"m", "e", "s", "s", "a", "g", "e", ":", " ", ".", "a", "s", "c", "i", "i", "z", " ", "\"", "H", "e", "l", "l", "o", ",", " ", "w", "o", "r", "l", "d", "!", "\\", "n", "\"", "\n">> \o
  <<"\n">> \o
  <<".", "t", "e", "x", "t", "\n">> \o
  <<".", "g", "l", "o", "b", "l", " ", "m", "a", "i", "n", "\n">> \o
  <<"m", "a", "i", "n", ":", "\n">> \o
  <<" ", " ", "l", "i", " ", "$", "v", "0", ",", " ", "4", "\n">> \o
  <<" ", " ", "l", "a", " ", "$", "a", "0", ",", " ", "m", "e", "s", "s", "a", "g", "e", "\n">> \o
  <<" ", " ", "s", "y", "s", "c", "a", "l", "l", "\n">> \o
  <<"\n">> \o
  <<" ", " ", "l", "i", " ", "$", "v", "0", ",", " ", "1", "0", "\n">> \o
  <<" ", " ", "s", "y", "s", "c", "a", "l", "l", "\n">>

\* Scenario B, as written: no segment directive
\*   li $t0,5
\*   li $t1,7
\*   add $t2,$t0,$t1
ArithSource ==
  <<"l", "i", " ", "$", "t", "0", ",", "5", "\n">> \o
  <<"l", "i", " ", "$", "t", "1", ",", "7", "\n">> \o
  <<"a", "d", "d", " ", "$", "t", "2", ",", "$", "t", "0", ",", "$", "t", "1", "\n">>

\* Scenario B after a .text directive
\*   .text
\*   li $t0,5
\*   li $t1,7
\*   add $t2,$t0,$t1
ArithTextSource ==
  <<".", "t", "e", "x", "t", "\n">> \o
  <<"l", "i", " ", "$", "t", "0", ",", "5", "\n">> \o
  <<"l", "i", " ", "$", "t", "1", ",", "7", "\n">> \o
  <<"a", "d", "d", " ", "$", "t", "2", ",", "$", "t", "0", ",", "$", "t", "1", "\n">>

\* add, sub and addi on the caller-supplied $t0 and $t1
\*   .text
\*   add $t2,$t0,$t1
\*   sub $t3,$t0,$t1
\*   addi $t4,$t0,1
\*   addi $t5,$t1,-1
\*   li $t6,0x7FFFFFFF
\*   addi $t7,$t6,1
\*   ADD $t8, $t6, $t6
OverflowSource ==
  <<".", "t", "e", "x", "t", "\n">> \o
  <<"a", "d", "d", " ", "$", "t", "2", ",", "$", "t", "0", ",", "$", "t", "1", "\n">> \o
  <<"s", "u", "b", " ", "$", "t", "3", ",", "$", "t", "0", ",", "$", "t", "1", "\n">> \o
  <<"a", "d", "d", "i", " ", "$", "t", "4", ",", "$", "t", "0", ",", "1", "\n">> \o
  <<"a", "d", "d", "i", " ", "$", "t", "5", ",", "$", "t", "1", ",", "-", "1", "\n">> \o
  <<"l", "i", " ", "$", "t", "6", ",", "0", "x", "7", "F", "F", "F", "F", "F", "F", "F", "\n">> \o
  <<"a", "d", "d", "i", " ", "$", "t", "7", ",", "$", "t", "6", ",", "1", "\n">> \o
  <<"A", "D", "D", " ", "$", "t", "8", ",", " ", "$", "t", "6", ",", " ", "$", "t", "6", "\n">>

\* every instruction that can name $zero as destination, then a failing one
\*   .data
\*   v: .word 7
\*   .text
\*   li $zero,5
\*   la $zero,v
\*   move $zero,$t0
\*   addi $zero,$t0,1
\*   add $zero,$t0,$t1
\*   sub $zero,$t0,$t1
\*   lw $zero,0($sp)
\*   foo $t0,$t1
ZeroDestSource ==
  <<".", "d", "a", "t", "a", "\n">> \o
  <<"v", ":", " ", ".", "w", "o", "r", "d", " ", "7", "\n">> \o
  <<".", "t", "e", "x", "t", "\n">> \o
  <<"l", "i", " ", "$", "z", "e", "r", "o", ",", "5", "\n">> \o
  <<"l", "a", " ", "$", "z", "e", "r", "o", ",", "v", "\n">> \o
  <<"m", "o", "v", "e", " ", "$", "z", "e", "r", "o", ",", "$", "t", "0", "\n">> \o
  <<"a", "d", "d", "i", " ", "$", "z", "e", "r", "o", ",", "$", "t", "0", ",", "1", "\n">> \o
  <<"a", "d", "d", " ", "$", "z", "e", "r", "o", ",", "$", "t", "0", ",", "$", "t", "1", "\n">> \o
  <<"s", "u", "b", " ", "$", "z", "e", "r", "o", ",", "$", "t", "0", ",", "$", "t", "1", "\n">> \o
  <<"l", "w", " ", "$", "z", "e", "r", "o", ",", "0", "(", "$", "s", "p", ")", "\n">> \o
  <<"f", "o", "o", " ", "$", "t", "0", ",", "$", "t", "1", "\n">>

\* Scenario D after a .text directive
\*   .text
\*   foo $t0,$t1
BadSource ==
  <<".", "t", "e", "x", "t", "\n">> \o
  <<"f", "o", "o", " ", "$", "t", "0", ",", "$", "t", "1", "\n">>

\* Scenario E after a .text directive
\*   .text
\*   j nowhere
JumpNowhereSource ==
  <<".", "t", "e", "x", "t", "\n">> \o
  <<"j", " ", "n", "o", "w", "h", "e", "r", "e", "\n">>

\* a data segment only
\*   .data
\*   msg: .asciiz "x"
EmptySource ==
  <<".", "d", "a", "t", "a", "\n">> \o
  <<"m", "s", "g", ":", " ", ".", "a", "s", "c", "i", "i", "z", " ", "\"", "x", "\"", "\n">>

\* stores and loads, then an invalid memory operand
\*   .text
\*   sw $t0, 0($sp)
\*   lw $t1, 0($sp)
\*   lw $t2, 0x10
\*   sw $t1, -4($sp)
\*   lw $t3, 4($nope)
MemSource ==
  <<".", "t", "e", "x", "t", "\n">> \o
  <<"s", "w", " ", "$", "t", "0", ",", " ", "0", "(", "$", "s", "p", ")", "\n">> \o
  <<"l", "w", " ", "$", "t", "1", ",", " ", "0", "(", "$", "s", "p", ")", "\n">> \o
  <<"l", "w", " ", "$", "t", "2", ",", " ", "0", "x", "1", "0", "\n">> \o
  <<"s", "w", " ", "$", "t", "1", ",", " ", "-", "4", "(", "$", "s", "p", ")", "\n">> \o
  <<"l", "w", " ", "$", "t", "3", ",", " ", "4", "(", "$", "n", "o", "p", "e", ")", "\n">>

\* print integer, print character, then an unsupported selector
\*   .text
\*   li $v0,1
\*   li $a0,-42
\*   syscall
\*   li $v0,11
\*   li $a0,65
\*   syscall
\*   li $v0,99
\*   syscall
SyscallSource ==
  <<".", "t", "e", "x", "t", "\n">> \o
  <<"l", "i", " ", "$", "v", "0", ",", "1", "\n">> \o
  <<"l", "i", " ", "$", "a", "0", ",", "-", "4", "2", "\n">> \o
  <<"s", "y", "s", "c", "a", "l", "l", "\n">> \o
  <<"l", "i", " ", "$", "v", "0", ",", "1", "1", "\n">> \o
  <<"l", "i", " ", "$", "a", "0", ",", "6", "5", "\n">> \o
  <<"s", "y", "s", "c", "a", "l", "l", "\n">> \o
  <<"l", "i", " ", "$", "v", "0", ",", "9", "9", "\n">> \o
  <<"s", "y", "s", "c", "a", "l", "l", "\n">>

\* a counted loop, a branch to a label after the last instruction
\*   .text
\*   li $t3,2
\*   loop: addi $t3,$t3,-1
\*   bne $t3,$zero,loop
\*   beq $t0,$t1,end
\*   li $t4,1 # not taken
\*   end:
BranchSource ==
  <<".", "t", "e", "x", "t", "\n">> \o
  <<"l", "i", " ", "$", "t", "3", ",", "2", "\n">> \o
  <<"l", "o", "o", "p", ":", " ", "a", "d", "d", "i", " ", "$", "t", "3", ",", "$", "t", "3", ",", "-", "1", "\n">> \o
  <<"b", "n", "e", " ", "$", "t", "3", ",", "$", "z", "e", "r", "o", ",", "l", "o", "o", "p", "\n">> \o
  <<"b", "e", "q", " ", "$", "t", "0", ",", "$", "t", "1", ",", "e", "n", "d", "\n">> \o
  <<"l", "i", " ", "$", "t", "4", ",", "1", " ", "#", " ", "n", "o", "t", " ", "t", "a", "k", "e", "n", "\n">> \o
  <<"e", "n", "d", ":", "\n">>

\* an immediate that is no number
\*   .text
\*   li $t0,abc
ImmediateSource ==
  <<".", "t", "e", "x", "t", "\n">> \o
  <<"l", "i", " ", "$", "t", "0", ",", "a", "b", "c", "\n">>

\* Scenario C after a .text directive
\*   .text
\*   loop:
\*   beq $zero,$zero,loop
LoopSource ==
  <<".", "t", "e", "x", "t", "\n">> \o
  <<"l", "o", "o", "p", ":", "\n">> \o
  <<"b", "e", "q", " ", "$", "z", "e", "r", "o", ",", "$", "z", "e", "r", "o", ",", "l", "o", "o", "p", "\n">>

\* a loop that counts and stores
\*   .text
\*   top: addi $t0,$t0,1
\*   sw $t0, 0($sp)
\*   j top
CountLoopSource ==
  <<".", "t", "e", "x", "t", "\n">> \o
  <<"t", "o", "p", ":", " ", "a", "d", "d", "i", " ", "$", "t", "0", ",", "$", "t", "0", ",", "1", "\n">> \o
  <<"s", "w", " ", "$", "t", "0", ",", " ", "0", "(", "$", "s", "p", ")", "\n">> \o
  <<"j", " ", "t", "o", "p", "\n">>

\* stores followed at once by loads of the same operand
\*   .text
\*   sw $t0, 8($sp)
\*   lw $t1, 8($sp)
\*   sw $t0, -8($sp)
\*   lw $t2, -8($sp)
\*   sw $t0, 0($sp)
\*   lw $t3, 0($sp)
RoundTripSource ==
  <<".", "t", "e", "x", "t", "\n">> \o
  <<"s", "w", " ", "$", "t", "0", ",", " ", "8", "(", "$", "s", "p", ")", "\n">> \o
  <<"l", "w", " ", "$", "t", "1", ",", " ", "8", "(", "$", "s", "p", ")", "\n">> \o
  <<"s", "w", " ", "$", "t", "0", ",", " ", "-", "8", "(", "$", "s", "p", ")", "\n">> \o
  <<"l", "w", " ", "$", "t", "2", ",", " ", "-", "8", "(", "$", "s", "p", ")", "\n">> \o
  <<"s", "w", " ", "$", "t", "0", ",", " ", "0", "(", "$", "s", "p", ")", "\n">> \o
  <<"l", "w", " ", "$", "t", "3", ",", " ", "0", "(", "$", "s", "p", ")", "\n">>

\* branches to a label the program does not define
\*   .text
\*   beq $t0,$t1,nowhere
\*   bne $t0,$t1,nowhere
BranchNowhereSource ==
  <<".", "t", "e", "x", "t", "\n">> \o
  <<"b", "e", "q", " ", "$", "t", "0", ",", "$", "t", "1", ",", "n", "o", "w", "h", "e", "r", "e", "\n">> \o
  <<"b", "n", "e", " ", "$", "t", "0", ",", "$", "t", "1", ",", "n", "o", "w", "h", "e", "r", "e", "\n">>

\* la of a label the data segment does not define
\*   .data
\*   msg: .asciiz "x"
\*   .text
\*   la $t0, missing
LaNowhereSource ==
  <<".", "d", "a", "t", "a", "\n">> \o
  <<"m", "s", "g", ":", " ", ".", "a", "s", "c", "i", "i", "z", " ", "\"", "x", "\"", "\n">> \o
  <<".", "t", "e", "x", "t", "\n">> \o
  <<"l", "a", " ", "$", "t", "0", ",", " ", "m", "i", "s", "s", "i", "n", "g", "\n">>

\* syscall 4 on an address that holds no string, on one inside a string, and on the address of a string
\*   .data
\*   msg: .asciiz "ab"
\*   .text
\*   li $v0,4
\*   syscall
\*   la $a0,msg
\*   addi $a0,$a0,1
\*   syscall
\*   addi $a0,$a0,-1
\*   syscall
PrintStringSource ==
  <<".", "d", "a", "t", "a", "\n">> \o
  <<"m", "s", "g", ":", " ", ".", "a", "s", "c", "i", "i", "z", " ", "\"", "a", "b", "\"", "\n">> \o
  <<".", "t", "e", "x", "t", "\n">> \o
  <<"l", "i", " ", "$", "v", "0", ",", "4", "\n">> \o
  <<"s", "y", "s", "c", "a", "l", "l", "\n">> \o
  <<"l", "a", " ", "$", "a", "0", ",", "m", "s", "g", "\n">> \o
  <<"a", "d", "d", "i", " ", "$", "a", "0", ",", "$", "a", "0", ",", "1", "\n">> \o
  <<"s", "y", "s", "c", "a", "l", "l", "\n">> \o
  <<"a", "d", "d", "i", " ", "$", "a", "0", ",", "$", "a", "0", ",", "-", "1", "\n">> \o
  <<"s", "y", "s", "c", "a", "l", "l", "\n">>

\* a data segment that declares the label a twice, and a label on a line of its own
\*   .data
\*   a: .asciiz "hello"
\*   b: .word 1, 2
\*   a: .word 3
\*   c: .asciiz "x"
\*   d:
\*   .asciiz "y\n"
\*   .text
\*   li $v0,4
\*   la $a0,c
\*   syscall
RedeclareSource ==
  <<".", "d", "a", "t", "a", "\n">> \o
  <<"a", ":", " ", ".", "a", "s", "c", "i", "i", "z", " ", "\"", "h", "e", "l", "l", "o", "\"", "\n">> \o
  <<"b", ":", " ", ".", "w", "o", "r", "d", " ", "1", ",", " ", "2", "\n">> \o
  <<"a", ":", " ", ".", "w", "o", "r", "d", " ", "3", "\n">> \o
  <<"c", ":", " ", ".", "a", "s", "c", "i", "i", "z", " ", "\"", "x", "\"", "\n">> \o
  <<"d", ":", "\n">> \o
  <<".", "a", "s", "c", "i", "i", "z", " ", "\"", "y", "\\", "n", "\"", "\n">> \o
  <<".", "t", "e", "x", "t", "\n">> \o
  <<"l", "i", " ", "$", "v", "0", ",", "4", "\n">> \o
  <<"l", "a", " ", "$", "a", "0", ",", "c", "\n">> \o
  <<"s", "y", "s", "c", "a", "l", "l", "\n">>

\* stores to the address a string is loaded at, then prints the string
\*   .data
\*   msg: .asciiz "ab"
\*   .text
\*   la $a0,msg
\*   li $t0,7
\*   sw $t0, 0($a0)
\*   sw $t0, msg
\*   lw $t1, msg
\*   li $v0,4
\*   syscall
StoreOverStringSource ==
  <<".", "d", "a", "t", "a", "\n">> \o
  <<"m", "s", "g", ":", " ", ".", "a", "s", "c", "i", "i", "z", " ", "\"", "a", "b", "\"", "\n">> \o
  <<".", "t", "e", "x", "t", "\n">> \o
  <<"l", "a", " ", "$", "a", "0", ",", "m", "s", "g", "\n">> \o
  <<"l", "i", " ", "$", "t", "0", ",", "7", "\n">> \o
  <<"s", "w", " ", "$", "t", "0", ",", " ", "0", "(", "$", "a", "0", ")", "\n">> \o
  <<"s", "w", " ", "$", "t", "0", ",", " ", "m", "s", "g", "\n">> \o
  <<"l", "w", " ", "$", "t", "1", ",", " ", "m", "s", "g", "\n">> \o
  <<"l", "i", " ", "$", "v", "0", ",", "4", "\n">> \o
  <<"s", "y", "s", "c", "a", "l", "l", "\n">>

\* text labels alone on a line and before code, one of them defined twice, one after the last instruction
\*   .text
\*   main:
\*   first: li $t0, 1
\*   again:
\*     addi $t0,$t0,1
\*   again: beq $t0,$zero,again
\*   done:
LabelSource ==
  <<".", "t", "e", "x", "t", "\n">> \o
  <<"m", "a", "i", "n", ":", "\n">> \o
  <<"f", "i", "r", "s", "t", ":", " ", "l", "i", " ", "$", "t", "0", ",", " ", "1", "\n">> \o
  <<"a", "g", "a", "i", "n", ":", "\n">> \o
  <<" ", " ", "a", "d", "d", "i", " ", "$", "t", "0", ",", "$", "t", "0", ",", "1", "\n">> \o
  <<"a", "g", "a", "i", "n", ":", " ", "b", "e", "q", " ", "$", "t", "0", ",", "$", "z", "e", "r", "o", ",", "a", "g", "a", "i", "n", "\n">> \o
  <<"d", "o", "n", "e", ":", "\n">>

\* unsupported and malformed instructions at indices the execution jumps over
\*   .text
\*   li $v0, 1
\*   beq $zero,$zero,skip
\*   foo $t0,$t1
\*   li $t0,abc
\*   lw $t1, 4($nope)
\*   skip:
\*   syscall
\*   j end
\*   bar
\*   end:
UnreachedBadSource ==
  <<".", "t", "e", "x", "t", "\n">> \o
  <<"l", "i", " ", "$", "v", "0", ",", " ", "1", "\n">> \o
  <<"b", "e", "q", " ", "$", "z", "e", "r", "o", ",", "$", "z", "e", "r", "o", ",", "s", "k", "i", "p", "\n">> \o
  <<"f", "o", "o", " ", "$", "t", "0", ",", "$", "t", "1", "\n">> \o
  <<"l", "i", " ", "$", "t", "0", ",", "a", "b", "c", "\n">> \o
  <<"l", "w", " ", "$", "t", "1", ",", " ", "4", "(", "$", "n", "o", "p", "e", ")", "\n">> \o
  <<"s", "k", "i", "p", ":", "\n">> \o
  <<"s", "y", "s", "c", "a", "l", "l", "\n">> \o
  <<"j", " ", "e", "n", "d", "\n">> \o
  <<"b", "a", "r", "\n">> \o
  <<"e", "n", "d", ":", "\n">>

\* a register name outside the register set in every operand position
\*   .data
\*   msg: .asciiz "x"
\*   .text
\*   li $bogus, 5
\*   la $bogus, msg
\*   move $bogus, $t0
\*   move $t1, $bogus
\*   addi $bogus, $t0, 1
\*   addi $t2, $bogus, 1
\*   add $bogus, $t0, $t0
\*   add $t3, $bogus, $t0
\*   sub $t4, $t0, $bogus
\*   sw $bogus, 0($sp)
\*   lw $bogus, 0($sp)
\*   bne $bogus, $zero, next
\*   beq $bogus, $zero, next
\*   li $t5, 1
\*   next:
\*   lw $t6, 0($bogus)
UnknownRegisterSource ==
  <<".", "d", "a", "t", "a", "\n">> \o
  <<"m", "s", "g", ":", " ", ".", "a", "s", "c", "i", "i", "z", " ", "\"", "x", "\"", "\n">> \o
  <<".", "t", "e", "x", "t", "\n">> \o
  <<"l", "i", " ", "$", "b", "o", "g", "u", "s", ",", " ", "5", "\n">> \o
  <<"l", "a", " ", "$", "b", "o", "g", "u", "s", ",", " ", "m", "s", "g", "\n">> \o
  <<"m", "o", "v", "e", " ", "$", "b", "o", "g", "u", "s", ",", " ", "$", "t", "0", "\n">> \o
  <<"m", "o", "v", "e", " ", "$", "t", "1", ",", " ", "$", "b", "o", "g", "u", "s", "\n">> \o
  <<"a", "d", "d", "i", " ", "$", "b", "o", "g", "u", "s", ",", " ", "$", "t", "0", ",", " ", "1", "\n">> \o
  <<"a", "d", "d", "i", " ", "$", "t", "2", ",", " ", "$", "b", "o", "g", "u", "s", ",", " ", "1", "\n">> \o
  <<"a", "d", "d", " ", "$", "b", "o", "g", "u", "s", ",", " ", "$", "t", "0", ",", " ", "$", "t", "0", "\n">> \o
  <<"a", "d", "d", " ", "$", "t", "3", ",", " ", "$", "b", "o", "g", "u", "s", ",", " ", "$", "t", "0", "\n">> \o
  <<"s", "u", "b", " ", "$", "t", "4", ",", " ", "$", "t", "0", ",", " ", "$", "b", "o", "g", "u", "s", "\n">> \o
  <<"s", "w", " ", "$", "b", "o", "g", "u", "s", ",", " ", "0", "(", "$", "s", "p", ")", "\n">> \o
  <<"l", "w", " ", "$", "b", "o", "g", "u", "s", ",", " ", "0", "(", "$", "s", "p", ")", "\n">> \o
  <<"b", "n", "e", " ", "$", "b", "o", "g", "u", "s", ",", " ", "$", "z", "e", "r", "o", ",", " ", "n", "e", "x", "t", "\n">> \o
  <<"b", "e", "q", " ", "$", "b", "o", "g", "u", "s", ",", " ", "$", "z", "e", "r", "o", ",", " ", "n", "e", "x", "t", "\n">> \o
  <<"l", "i", " ", "$", "t", "5", ",", " ", "1", "\n">> \o
  <<"n", "e", "x", "t", ":", "\n">> \o
  <<"l", "w", " ", "$", "t", "6", ",", " ", "0", "(", "$", "b", "o", "g", "u", "s", ")", "\n">>

\* labels of one segment used where the other segment's are looked up, and a
\* name defined in both
\*   .data
\*   msg: .asciiz "x"
\*   both: .word 1
\*   .text
\*   main: la $t2, both
\*   beq $t0,$t1,both
\*   beq $t0,$zero,toload
\*   la $a0, main
\*   toload: lw $t3, main
\*   both: sw $t2, both
\*   j msg
NamespaceSource ==
  <<".", "d", "a", "t", "a", "\n">> \o
  <<"m", "s", "g", ":", " ", ".", "a", "s", "c", "i", "i", "z", " ", "\"", "x", "\"", "\n">> \o
  <<"b", "o", "t", "h", ":", " ", ".", "w", "o", "r", "d", " ", "1", "\n">> \o
  <<".", "t", "e", "x", "t", "\n">> \o
  <<"m", "a", "i", "n", ":", " ", "l", "a", " ", "$", "t", "2", ",", " ", "b", "o", "t", "h", "\n">> \o
  <<"b", "e", "q", " ", "$", "t", "0", ",", "$", "t", "1", ",", "b", "o", "t", "h", "\n">> \o
  <<"b", "e", "q", " ", "$", "t", "0", ",", "$", "z", "e", "r", "o", ",", "t", "o", "l", "o", "a", "d", "\n">> \o
  <<"l", "a", " ", "$", "a", "0", ",", " ", "m", "a", "i", "n", "\n">> \o
  <<"t", "o", "l", "o", "a", "d", ":", " ", "l", "w", " ", "$", "t", "3", ",", " ", "m", "a", "i", "n", "\n">> \o
  <<"b", "o", "t", "h", ":", " ", "s", "w", " ", "$", "t", "2", ",", " ", "b", "o", "t", "h", "\n">> \o
  <<"j", " ", "m", "s", "g", "\n">>

\* literals beyond 2^53 and beyond every double
\*   .data
\*   wide: .word 9007199254740993, 4294967298
\*   .text
\*   li $t0, 9007199254740993
\*   li $t1, 0x20000000000001
\*   addi $t2, $zero, 140737488355329
\*   lw $t3, 4563468292($zero)
\*   li $t4, 1000... (a 1 and 309 zeros)
HugeLiteralSource ==
  <<".", "d", "a", "t", "a", "\n">> \o
  <<"w", "i", "d", "e", ":", " ", ".", "w", "o", "r", "d", " ", "9", "0", "0", "7", "1", "9", "9", "2", "5", "4", "7", "4", "0", "9", "9", "3", ",", " ", "4", "2", "9", "4", "9", "6", "7", "2", "9", "8", "\n">> \o
  <<".", "t", "e", "x", "t", "\n">> \o
  <<"l", "i", " ", "$", "t", "0", ",", " ", "9", "0", "0", "7", "1", "9", "9", "2", "5", "4", "7", "4", "0", "9", "9", "3", "\n">> \o
  <<"l", "i", " ", "$", "t", "1", ",", " ", "0", "x", "2", "0", "0", "0", "0", "0", "0", "0", "0", "0", "0", "0", "0", "1", "\n">> \o
  <<"a", "d", "d", "i", " ", "$", "t", "2", ",", " ", "$", "z", "e", "r", "o", ",", " ", "1", "4", "0", "7", "3", "7", "4", "8", "8", "3", "5", "5", "3", "2", "9", "\n">> \o
  <<"l", "w", " ", "$", "t", "3", ",", " ", "4", "5", "6", "3", "4", "6", "8", "2", "9", "2", "(", "$", "z", "e", "r", "o", ")", "\n">> \o
  <<"l", "i", " ", "$", "t", "4", ",", " ", "1", "0", "0", "0", "0", "0", "0", "0", "0", "0", "0", "0", "0", "0", "0", "0", "0", "0", "0", "0", "0", "0", "0", "0", "0", "0", "0", "0", "0", "0", "0", "0", "0", "0", "0", "0", "0", "0", "0", "0", "0", "0", "0", "0", "0", "0", "0", "0", "0", "0", "0", "0", "0", "0", "0", "0", "0", "0", "0", "0", "0", "0", "0", "0", "0", "0", "0", "0", "0", "0", "0", "0", "0", "0", "0", "0", "0", "0", "0", "0", "0", "0", "0", "0", "0", "0", "0", "0", "0", "0", "0", "0", "0", "0", "0", "0", "0", "0", "0", "0", "0", "0", "0", "0", "0", "0", "0", "0", "0", "0", "0", "0", "0", "0", "0", "0", "0", "0", "0", "0", "0", "0", "0", "0", "0", "0", "0", "0", "0", "0", "0", "0", "0", "0", "0", "0", "0", "0", "0", "0", "0", "0", "0", "0", "0", "0", "0", "0", "0", "0", "0", "0", "0", "0", "0", "0", "0", "0", "0", "0", "0", "0", "0", "0", "0", "0", "0", "0", "0", "0", "0", "0", "0", "0", "0", "0", "0", "0", "0", "0", "0", "0", "0", "0", "0", "0", "0", "0", "0", "0", "0", "0", "0", "0", "0", "0", "0", "0", "0", "0", "0", "0", "0", "0", "0", "0", "0", "0", "0", "0", "0", "0", "0", "0", "0", "0", "0", "0", "0", "0", "0", "0", "0", "0", "0", "0", "0", "0", "0", "0", "0", "0", "0", "0", "0", "0", "0", "0", "0", "0", "0", "0", "0", "0", "0", "0", "0", "0", "0", "0", "0", "0", "0", "0", "0", "0", "0", "0", "0", "0", "0", "0", "0", "0", "0", "0", "0", "0", "0", "0", "0", "0", "0", "0", "0", "0", "0", "0", "0", "0", "0", "0", "0", "0", "0", "0", "0", "0", "0", "0", "0", "0", "0", "0", "0", "0", "0", "0", "0", "0", "0", "0", "0", "0", "0", "0", "0", "0", "0", "0", "\n">>

Sources ==
  {HelloSource, TemplateSource, ArithSource, ArithTextSource, OverflowSource,
   ZeroDestSource, BadSource, JumpNowhereSource, EmptySource, MemSource,
   SyscallSource, BranchSource, ImmediateSource, RoundTripSource,
   BranchNowhereSource, LaNowhereSource, PrintStringSource, RedeclareSource,
   StoreOverStringSource, LabelSource, UnreachedBadSource,
   UnknownRegisterSource, NamespaceSource, HugeLiteralSource}

\* executes 2 + 2 * 4999 = MIPS_MAX_STEPS instructions and falls off the end
\*   .text
\*   li $t0, 4999
\*   move $t1,$t0
\*   loop: addi $t0,$t0,-1
\*   bne $t0,$zero,loop
ExactBoundSource ==
  <<".", "t", "e", "x", "t", "\n">> \o
  <<"l", "i", " ", "$", "t", "0", ",", " ", "4", "9", "9", "9", "\n">> \o
  <<"m", "o", "v", "e", " ", "$", "t", "1", ",", "$", "t", "0", "\n">> \o
  <<"l", "o", "o", "p", ":", " ", "a", "d", "d", "i", " ", "$", "t", "0", ",", "$", "t", "0", ",", "-", "1", "\n">> \o
  <<"b", "n", "e", " ", "$", "t", "0", ",", "$", "z", "e", "r", "o", ",", "l", "o", "o", "p", "\n">>

BoundSources == {ExactBoundSource}

\* programs that never halt and never fail
LoopSources == {LoopSource, CountLoopSource}

\* the largest and smallest 32-bit integers
MaxInt == 32767 * Half + (Half - 1)

MinInt == -2147483647 - 1

\* how far the small caller-supplied values reach around 0
MaxSmall == 1

\* caller-supplied numbers (wide): small ones, the ends of the 32-bit range,
\* and 2^31 and 2^32 + 5, which lie outside it
InputValues ==
  {WOfInt(x) : x \in (0 - MaxSmall)..MaxSmall} \cup
  {WOfInt(MaxInt), WOfInt(MinInt), <<32768, 0>>, <<Half, 5>>}

T0Reg == <<"$", "t", "0">>

T1Reg == <<"$", "t", "1">>

T2Reg == <<"$", "t", "2">>

SpReg == <<"$", "s", "p">>

\* initialRegisters, as the list Object.entries gives
RegisterInputs ==
  {<<>>} \cup
  {<<<<T0Reg, a>>, <<T1Reg, b>>>> : a \in InputValues, b \in InputValues} \cup
  {<<<<T0Reg, a>>, <<SpReg, b>>>> : a \in InputValues, b \in InputValues} \cup
  {<<<<ZeroReg, WOfInt(7)>>, <<SpReg, WOfInt(20)>>, <<<<"$", "b", "o", "g", "u", "s">>, WOfInt(3)>>,
     <<V0Reg, WOfInt(1)>>, <<T0Reg, WOfInt(MinInt)>>>>}

\* initialMemory, as the list Object.entries gives
MemoryInputs ==
  {<<>>,
   <<<<<<"1", "6">>, WOfInt(9)>>, <<<<"2", "0">>, <<Half, 3>>>>, <<<<"0", "x", "1", "0">>, WOfInt(-8)>>,
     <<<<"j", "u", "n", "k">>, WOfInt(1)>>,
     <<<<"4", "2", "9", "4", "9", "6", "7", "3", "3", "6">>, WOfInt(MinInt)>>,
     <<<<"-", "0", "x", "8", "0", "0", "0", "0", "0", "0", "4">>, <<0 - Half, 1>>>>>>}

(***************************************************************************)
(* The machine held by the editor, stepped one instruction at a time or    *)
(* run to the end.                                                         *)
(*   machine  the current machine state                                    *)
(*   initial  the machine state the execution started from                 *)
(*   current  the argument of the latest stepMipsMachine call              *)
(*   previous the argument of the stepMipsMachine call before that one     *)
(*   written  the memory keys the sw instructions executed so far stored to *)
(*   stepped  whether stepMipsMachine has been called                      *)
(*   driver   where runMipsMachineToEnd is: not called ("idle"), in its    *)
(*            loop ("running"), returned ("returned"), or left by the      *)
(*            exception of a stepMipsMachine call ("threw")                *)
(***************************************************************************)
\* the memory key the call stepMipsMachine(m) stores to: that of the sw it
\* executes, if it executes one with a valid operand
StoreTargets(m) ==
  IF m.status # "ready"
     \/ NumLess(m.pcKind, m.pc, 0)
     \/ NumAtLeast(m.pcKind, m.pc, Len(m.program.instructions))
     \/ NumAtLeast(m.stepsKind, m.steps, MIPS_MAX_STEPS)
     \/ m.pcKind # "integer"
  THEN {}
  ELSE Bind(MatchSw(m.program.instructions[m.pc + 1]), LAMBDA sw :
         IF sw = Null THEN {}
         ELSE Bind(parseMipsAddressOperand(m, Trim(sw[2])), LAMBDA address :
                IF address = Null THEN {} ELSE {NumberString(address[1])}))

TypeOK ==
  /\ machine.status \in {"ready", "halted", "error"}
  /\ machine.pcKind \in NumberKinds
  /\ machine.stepsKind \in NumberKinds
  /\ current.status \in {"ready", "halted", "error"}
  /\ previous.status \in {"ready", "halted", "error"}
  /\ initial.status \in {"ready", "halted", "error"}
  /\ second.status \in {"ready", "halted", "error"}
  /\ \A key \in written : key \in DOMAIN machine.memory
  /\ stepped \in BOOLEAN
  /\ driver \in {"idle", "running", "returned", "threw"}

InitFrom(srcs, regs, mems) ==
  /\ \E source \in srcs, initialRegisters \in regs, initialMemory \in mems :
       machine = initializeMipsMachine(source, initialRegisters, initialMemory)
  /\ second = machine
  /\ initial = machine
  /\ current = machine
  /\ previous = machine
  /\ written = {}
  /\ stepped = FALSE
  /\ driver = "idle"

Init == InitFrom(Sources, RegisterInputs, MemoryInputs)

\* one call of stepMipsMachine from the step-by-step inspector; the returned
\* state refers to the Program object of the argument ({ ...current }), which
\* the state held aside in second refers to as well; a call that throws
\* leaves the machine as it is
Step ==
  /\ driver # "running"
  /\ current' = machine
  /\ previous' = current
  /\ written' = written \cup StoreTargets(machine)
  /\ machine' = stepMipsMachine(machine)
  /\ second' = [second EXCEPT !.program = machine'.program]
  /\ stepped' = TRUE
  /\ UNCHANGED <<initial, driver>>

\* runMipsMachineToEnd is called: next = machine
RunToEndCall ==
  /\ driver # "running"
  /\ driver' = "running"
  /\ UNCHANGED <<machine, second, initial, current, previous, written, stepped>>

\* one iteration of its loop: while (next.status === 'ready') next = step(next);
\* the exception of a step call that throws leaves runMipsMachineToEnd
RunToEndLoop ==
  /\ driver = "running"
  /\ machine.status = "ready"
  /\ current' = machine
  /\ previous' = current
  /\ written' = written \cup StoreTargets(machine)
  /\ machine' = stepMipsMachine(machine)
  /\ second' = [second EXCEPT !.program = machine'.program]
  /\ stepped' = TRUE
  /\ driver' = IF Throws(machine) THEN "threw" ELSE driver
  /\ UNCHANGED initial

\* the loop condition fails: return next
RunToEndReturn ==
  /\ driver = "running"
  /\ machine.status # "ready"
  /\ driver' = "returned"
  /\ UNCHANGED <<machine, second, initial, current, previous, written, stepped>>

Next == Step \/ RunToEndCall \/ RunToEndLoop \/ RunToEndReturn

Spec == Init /\ [][Next]_vars

\* the same machine on every program, the never-ending ones included, with few
\* initial overrides
InitRun ==
  InitFrom(Sources \cup LoopSources \cup BoundSources,
           {<<>>, <<<<T0Reg, WOfInt(MaxInt)>>>>}, {<<>>})

RunSpec == InitRun /\ [][Next]_vars

\* a second machine state that shares the Program object of the first (both
\* come from one initializeMipsMachine call) is stepped on its own
StepSecond ==
  /\ driver = "idle"
  /\ second' = stepMipsMachine(second)
  /\ machine' = [machine EXCEPT !.program = second'.program]
  /\ UNCHANGED <<initial, current, previous, written, stepped, driver>>

PairSources ==
  {MemSource, RoundTripSource, SyscallSource, BranchSource, PrintStringSource,
   StoreOverStringSource}

PairInit == InitFrom(PairSources, RegisterInputs, {<<>>})

PairNext == Step \/ StepSecond

PairSpec == PairInit /\ [][PairNext]_vars

\* any machine state: any status, a program from the loader or one built by
\* hand whose label targets are no integers, and for pc and steps the numbers
\* the type admits: for pc an integer in or around the instruction range, a
\* non-integer in or around it, an integer below -2^53 of either huge kind,
\* NaN or an infinity; for steps 0, an integer around the step bound, a
\* non-integer below the bound, an integer below -2^53 of either huge kind,
\* NaN or an infinity
PcSlack == 1

StepSlack == 2

AnySources == LoopSources \cup {HelloSource, BranchSource, BadSource}

AnyPc(count) ==
  {<<pc, "integer">> : pc \in (0 - PcSlack)..(count + PcSlack)} \cup
  {<<pc, "half">> : pc \in (0 - PcSlack)..count} \cup
  {<<0, kind>> : kind \in {"-huge", "-huge-odd", "NaN", "Infinity", "-Infinity"}}

\* the label targets of a program built by hand from the program of the
\* loader: as loaded, or every target t replaced by t + 0.5, or by NaN
AnyLabelKinds(program) ==
  {EmptyMap} \cup
  {[label \in DOMAIN program.labels |-> kind] : kind \in {"half", "NaN"}}

\* under a step count that never reaches the bound the loops of
\* CountLoopSource and BranchSource run through all the 2^32 values of their
\* counters: LoopSource stands for the never-ending programs there
AnySteps(source) ==
  {<<steps, "integer">> :
     steps \in {0} \cup
               ((MIPS_MAX_STEPS - StepSlack)..(MIPS_MAX_STEPS + StepSlack))} \cup
  {<<MIPS_MAX_STEPS - 1, "half">>, <<0, "Infinity">>} \cup
  (IF source \in {CountLoopSource, BranchSource} THEN {}
   ELSE {<<0, kind>> : kind \in {"-huge", "-huge-odd", "NaN", "-Infinity"}})

InitAny ==
  /\ \E source \in AnySources, status \in {"ready", "halted", "error"} :
       LET m == initializeMipsMachine(source, <<>>, <<>>)
       IN \E pc \in AnyPc(Len(m.program.instructions)), steps \in AnySteps(source),
             labelKinds \in AnyLabelKinds(m.program) :
            machine = [m EXCEPT !.status = status,
                                !.program.labelKinds = labelKinds,
                                !.pc = pc[1], !.pcKind = pc[2],
                                !.steps = steps[1], !.stepsKind = steps[2]]
  /\ second = machine
  /\ initial = machine
  /\ current = machine
  /\ previous = machine
  /\ written = {}
  /\ stepped = FALSE
  /\ driver = "idle"

AnySpec == InitAny /\ [][Next]_vars

\* runMipsMachineToEnd is a synchronous loop: once called it keeps iterating
\* and returns as soon as its condition fails
FairAnySpec == AnySpec /\ WF_vars(RunToEndLoop) /\ WF_vars(RunToEndReturn)

(***************************************************************************)
(* Claims                                                                  *)
(***************************************************************************)
Terminal == {"halted", "error"}

\* whether the numbers of the state m are those of a machine state: pc an
\* instruction index or another integer, steps a count of executed
\* instructions, every label target the instruction index the loader records
MachineNumbers(m) ==
  /\ m.pcKind \in {"integer", "-huge", "-huge-odd"}
  /\ m.stepsKind = "integer" /\ m.steps >= 0
  /\ m.program.labelKinds = EmptyMap

\* C1: from every machine state (any program, registers, memory and status, pc
\* any integer, steps any count), a call of runMipsMachineToEnd returns, and
\* the state it returns has status halted or error, never ready.
C1_RunToEndTerminates ==
  /\ (driver = "running" /\ MachineNumbers(machine))
       ~> (driver = "returned" /\ machine.status \in Terminal)
  /\ [](driver = "returned" => machine.status \in Terminal)

\* runMipsMachineToEnd has returned after stepping a never-ending program up
\* to the step bound
C1_Witness ==
  /\ driver = "returned"
  /\ machine.source \in LoopSources
  /\ stepped
  /\ current.status = "ready"
  /\ current.steps = MIPS_MAX_STEPS
  /\ MachineNumbers(current)
  /\ machine.status = "error"

\* C2: in every state reachable from an initialized machine by step calls,
\* steps is between 0 and MIPS_MAX_STEPS (10000) inclusive.
C2_StepsWithinBound == machine.steps >= 0 /\ machine.steps <= MIPS_MAX_STEPS

\* a never-ending program has been stepped up to the bound
C2_Witness == stepped /\ machine.steps = MIPS_MAX_STEPS /\ machine.status = "ready"

\* C3: for a program that never leaves the instruction range, never halts by
\* syscall and never fails, runMipsMachineToEnd returns status error, steps
\* exactly 10000 and the timed-out message.
C3_LoopTimesOut ==
  (driver = "returned" /\ machine.source \in LoopSources) =>
    /\ machine.status = "error"
    /\ machine.steps = 10000
    /\ machine.error = TimedOutMessage

\* runMipsMachineToEnd has returned on Scenario C's program
C3_Witness ==
  /\ driver = "returned"
  /\ machine.program.instructions =
       <<<<"b", "e", "q", " ", "$", "z", "e", "r", "o", ",", "$", "z", "e", "r", "o",
           ",", "l", "o", "o", "p">>>>
  /\ machine.program.labels[<<"l", "o", "o", "p">>] = 0
  /\ machine.status = "error"

\* C4: stepMipsMachine applied to a state whose status is halted or error
\* returns that state with every field unchanged.
C4_TerminalAbsorbing ==
  (stepped /\ current.status \in Terminal) => machine = current

\* stepMipsMachine has been called on a halted state whose pc is in range
C4_Witness ==
  /\ stepped
  /\ current.status = "halted"
  /\ current.pc < Len(current.program.instructions)
  /\ machine.status = "halted"

\* C5: the value of $zero is 0 in every reachable state: in the state built by
\* initializeMipsMachine for any register overrides, and before and after
\* every step, the steps naming $zero as destination and the steps ending in
\* error included.
C5_ZeroRegisterIsZero ==
  /\ machine.registers[<<"$", "z", "e", "r", "o">>] = 0
  /\ current.registers[<<"$", "z", "e", "r", "o">>] = 0

\* a machine built with an override for $zero has executed li, la, move, addi,
\* add, sub and lw with destination $zero, and then a step that ends in error
C5_Witness ==
  /\ machine.source = ZeroDestSource
  /\ machine.registers[SpReg] = 20
  /\ stepped
  /\ current.status = "ready"
  /\ current.pc = 7
  /\ current.steps = 7
  /\ machine.status = "error"

\* whether stepMipsMachine, called on m, executes the instruction at m.pc
Executes(m) ==
  /\ m.status = "ready"
  /\ m.pc >= 0
  /\ m.pc < Len(m.program.instructions)
  /\ m.steps < MIPS_MAX_STEPS

\* C6 as stated: every call of stepMipsMachine on a ready state returns a state
\* whose steps is one greater than the input's, whatever the outcome.
C6_StepsCountEveryCall ==
  (stepped /\ current.status = "ready") => machine.steps = current.steps + 1

\* C6, amended: a call of stepMipsMachine on a ready state adds one to steps
\* exactly when it executes an instruction (pc in range and steps below the
\* bound), the instruction that fails included; the call that halts on a pc out
\* of range and the call that times out leave steps as it was.
C6_StepsCountExecutions ==
  (stepped /\ current.status = "ready") =>
    machine.steps = IF Executes(current) THEN current.steps + 1 ELSE current.steps

\* the call that timed out left steps at the bound
C6_Witness ==
  /\ stepped
  /\ current.status = "ready"
  /\ current.steps = MIPS_MAX_STEPS
  /\ machine.status = "error"
  /\ machine.steps = MIPS_MAX_STEPS

\* whether text starts with prefix
HasPrefix(text, prefix) ==
  Len(text) >= Len(prefix) /\ SubSeq(text, 1, Len(prefix)) = prefix

\* the messages of the decode and execution failures
FailurePrefixes ==
  {InvalidImmediatePrefix, UnknownDataLabelPrefix, InvalidMemoryOperandPrefix,
   UnknownLabelPrefix, UnsupportedSyscallPrefix, UnsupportedInstructionPrefix}

\* C7: a step changes the status only from ready, to halted or to error; to
\* halted only when pc is outside the instruction range or the instruction at
\* pc is syscall with $v0 = 10; to error only on step-bound exhaustion, an
\* unresolved label, an invalid memory operand, an invalid immediate, an
\* unsupported instruction or an unsupported syscall selector.
C7_StatusTransitions ==
  stepped =>
    /\ current.status # "ready" => machine.status = current.status
    /\ (current.status = "ready" /\ machine.status = "halted") =>
         \/ current.pc < 0
         \/ current.pc >= Len(current.program.instructions)
         \/ /\ MatchSyscall(current.program.instructions[current.pc + 1])
            /\ current.registers[V0Reg] = 10
    /\ (current.status = "ready" /\ machine.status = "error") =>
         /\ current.pc >= 0
         /\ current.pc < Len(current.program.instructions)
         /\ IF current.steps >= MIPS_MAX_STEPS
            THEN machine.error = TimedOutMessage
            ELSE \E prefix \in FailurePrefixes : HasPrefix(machine.error, prefix)

\* a syscall with an unsupported selector has turned a ready state into error
C7_Witness ==
  /\ stepped
  /\ current.status = "ready"
  /\ current.pc < Len(current.program.instructions)
  /\ MatchSyscall(current.program.instructions[current.pc + 1])
  /\ current.registers[V0Reg] \notin {1, 4, 10, 11}
  /\ machine.status = "error"
  /\ HasPrefix(machine.error, UnsupportedSyscallPrefix)

\* C8: Scenario A's source, loaded and run to the end, yields status halted
\* and output exactly Hi followed by a newline.
C8_HelloWorld ==
  (driver = "returned" /\ machine.source = HelloSource) =>
    /\ machine.status = "halted"
    /\ machine.output = <<"H", "i", "\n">>

\* runMipsMachineToEnd has returned on Scenario A's source after its five steps
C8_Witness ==
  /\ driver = "returned"
  /\ machine.source = HelloSource
  /\ machine.steps = 5
  /\ Len(machine.output) = 3

\* C9: Scenario B's three-line source, which has no segment directive, loaded
\* and run to the end yields status halted and $t2 = 12.
C9_ArithmeticWithoutDirective ==
  (driver = "returned" /\ machine.source = ArithSource) =>
    /\ machine.status = "halted"
    /\ machine.registers[<<"$", "t", "2">>] = 12

\* the sum of two 32-bit integers reduced to the signed 32-bit range, with no
\* intermediate value outside it
WrappedSum(a, b) ==
  IF a > 0 /\ b > 0 /\ a > MaxInt - b THEN (a + MinInt) + (b + MinInt)
  ELSE IF a < 0 /\ b < 0 /\ a < MinInt - b THEN (a - MinInt) + (b - MinInt)
  ELSE a + b

\* the difference of two 32-bit integers reduced to the signed 32-bit range
WrappedDifference(a, b) ==
  IF b = MinInt THEN (IF a < 0 THEN a - MinInt ELSE a + MinInt)
  ELSE WrappedSum(a, 0 - b)

\* the value register name holds after a write of value to it is attempted
AfterWrite(m, name, value) ==
  IF name \in MIPS_REGISTER_SET /\ name # <<"$", "z", "e", "r", "o">>
  THEN value ELSE readMipsRegister(m, name)

\* C10: add, sub and addi write to the destination register the sum or the
\* difference of their operands reduced to the signed 32-bit range by
\* wraparound, and raise no error on overflow.
C10_WraparoundArithmetic ==
  (stepped /\ Executes(current)) =>
    LET inst == current.program.instructions[current.pc + 1]
        addi == MatchAddi(inst)
        arithmetic == MatchArithmetic(inst)
    IN /\ (addi # Null /\ parseMipsNumber(addi[3]) # Null) =>
            /\ machine.status = "ready"
            /\ readMipsRegister(machine, addi[1]) =
                 AfterWrite(current, addi[1],
                            WrappedSum(readMipsRegister(current, addi[2]),
                                       parseMipsNumber(addi[3])[1]))
       /\ arithmetic # Null =>
            /\ machine.status = "ready"
            /\ readMipsRegister(machine, arithmetic[2]) =
                 AfterWrite(current, arithmetic[2],
                            IF LowerCase(arithmetic[1]) = <<"a", "d", "d">>
                            THEN WrappedSum(readMipsRegister(current, arithmetic[3]),
                                            readMipsRegister(current, arithmetic[4]))
                            ELSE WrappedDifference(
                                   readMipsRegister(current, arithmetic[3]),
                                   readMipsRegister(current, arithmetic[4])))

\* addi $t7,$t6,1 has been executed with $t6 = 0x7FFFFFFF and has left
\* -2147483648 in $t7
C10_Witness ==
  /\ stepped
  /\ Executes(current)
  /\ current.program.instructions[current.pc + 1] =
       <<"a", "d", "d", "i", " ", "$", "t", "7", ",", "$", "t", "6", ",", "1">>
  /\ current.registers[<<"$", "t", "6">>] = MaxInt
  /\ machine.registers[<<"$", "t", "7">>] = -2147483647 - 1
  /\ machine.status = "ready"

\* the lw that the call stepMipsMachine(m) executes with a valid operand, as
\* <<destination, memory key, operand>>; Null when it executes none
LoadAt(m) ==
  IF ~Executes(m) THEN Null
  ELSE LET lw == MatchLw(m.program.instructions[m.pc + 1])
           address == parseMipsAddressOperand(m, Trim(lw[2]))
       IN IF lw = Null THEN Null
          ELSE IF address = Null THEN Null
          ELSE <<lw[1], NumberString(address[1]), Trim(lw[2])>>

\* C11 as stated: an lw whose computed address has not been the target of an
\* earlier sw in the execution loads 0 into its destination register.
C11_UnstoredLoadsZero ==
  (stepped /\ LoadAt(current) # Null /\ LoadAt(current)[2] \notin written) =>
    readMipsRegister(machine, LoadAt(current)[1]) = 0

\* C11, amended: an lw whose computed address has not been the target of an
\* earlier sw loads the value the initial memory holds for that address, and 0
\* when the initial memory holds none; the machine stays ready.
C11_UnstoredLoadsInitialOrZero ==
  (stepped /\ LoadAt(current) # Null /\ LoadAt(current)[2] \notin written) =>
    LET rd == LoadAt(current)[1]
        key == LoadAt(current)[2]
    IN /\ machine.status = "ready"
       /\ readMipsRegister(machine, rd) =
            AfterWrite(current, rd,
                       IF key \in DOMAIN initial.memory
                       THEN initial.memory[key] ELSE 0)

\* lw $t2, 0x10 has loaded the value the initial memory gave address 16, which
\* no sw had stored to
C11_Witness ==
  /\ stepped
  /\ LoadAt(current) = <<T2Reg, <<"1", "6">>, <<"0", "x", "1", "0">>>>
  /\ <<"1", "6">> \notin written
  /\ <<"1", "6">> \in DOMAIN initial.memory
  /\ machine.registers[T2Reg] = -8

\* the sw that the call stepMipsMachine(m) executes with a valid operand, as
\* <<source register, memory key, operand>>; Null when it executes none
StoreAt(m) ==
  IF ~Executes(m) THEN Null
  ELSE LET sw == MatchSw(m.program.instructions[m.pc + 1])
           address == parseMipsAddressOperand(m, Trim(sw[2]))
       IN IF sw = Null THEN Null
          ELSE IF address = Null THEN Null
          ELSE <<sw[1], NumberString(address[1]), Trim(sw[2])>>

\* C12: sw rs, operand immediately followed by lw rd, operand leaves in rd the
\* value rs held before the store, for every value of rs and of the base
\* register, also when base + offset wraps around the 32-bit range.
C12_StoreLoadRoundTrip ==
  (/\ stepped
   /\ StoreAt(previous) # Null
   /\ current = stepMipsMachine(previous)
   /\ LoadAt(current) # Null
   /\ LoadAt(current)[3] = StoreAt(previous)[3]) =>
    /\ machine.status = "ready"
    /\ LoadAt(current)[2] = StoreAt(previous)[2]
    /\ readMipsRegister(machine, LoadAt(current)[1]) =
         AfterWrite(current, LoadAt(current)[1],
                    readMipsRegister(previous, StoreAt(previous)[1]))

\* sw $t0, 8($sp) and lw $t1, 8($sp) have been executed with $t0 = -1 and
\* $sp = 0x7FFFFFFF, where $sp + 8 wraps around to -2147483641
C12_Witness ==
  /\ stepped
  /\ StoreAt(previous) # Null
  /\ LoadAt(current) # Null
  /\ LoadAt(current)[3] = <<"8", "(", "$", "s", "p", ")">>
  /\ previous.registers[SpReg] = MaxInt
  /\ previous.registers[T0Reg] = -1
  /\ LoadAt(current)[2] =
       <<"-", "2", "1", "4", "7", "4", "8", "3", "6", "4", "1">>
  /\ machine.registers[T1Reg] = -1

\* the beq or bne that the call stepMipsMachine(m) executes, as
\* <<mnemonic, rs, rt, label>>; Null when it executes none
BranchAt(m) ==
  IF ~Executes(m) THEN Null
  ELSE MatchBranch(m.program.instructions[m.pc + 1])

\* C13: executing a beq or bne whose target label is not in the label table
\* yields status error, for every pair of values of the compared registers.
C13_UnknownBranchLabelFails ==
  (/\ stepped
   /\ BranchAt(current) # Null
   /\ ~Has(current.program.labels, BranchAt(current)[4])) =>
    machine.status = "error"

\* whether part occurs in text
Contains(text, part) ==
  \E i \in 1..(Len(text) - Len(part) + 1) : SubSeq(text, i, i + Len(part) - 1) = part

\* the instruction the call stepMipsMachine(m) executes
InstructionAt(m) == m.program.instructions[m.pc + 1]

\* C14: executing j label with a label absent from the label table, or
\* la rd, label with a label absent from the data-address table, yields
\* status error with a message that contains the label name; for the program
\* j nowhere the message references nowhere.
C14_UnknownLabelNamed ==
  (stepped /\ Executes(current)) =>
    LET jump == MatchJump(InstructionAt(current))
        la == MatchLa(InstructionAt(current))
    IN /\ (jump # Null /\ ~Has(current.program.labels, jump[1])) =>
            /\ machine.status = "error"
            /\ Contains(machine.error, jump[1])
       /\ (la # Null /\ ~Has(current.program.dataAddresses, la[2])) =>
            /\ machine.status = "error"
            /\ Contains(machine.error, la[2])
       /\ current.program.instructions =
            <<<<"j", " ", "n", "o", "w", "h", "e", "r", "e">>>> =>
            /\ machine.status = "error"
            /\ Contains(machine.error, <<"n", "o", "w", "h", "e", "r", "e">>)

\* Scenario E: j nowhere has been executed and has failed
C14_Witness ==
  /\ stepped
  /\ Executes(current)
  /\ InstructionAt(current) = <<"j", " ", "n", "o", "w", "h", "e", "r", "e">>
  /\ machine.status = "error"
  /\ machine.error = UnknownLabelPrefix \o <<"n", "o", "w", "h", "e", "r", "e">>

\* C15: when the instruction at pc matches none of the supported forms, the
\* step yields status error with a message that contains the instruction text
\* verbatim.
C15_UnsupportedInstructionNamed ==
  (stepped /\ Executes(current) /\ Unsupported(InstructionAt(current))) =>
    /\ machine.status = "error"
    /\ Contains(machine.error, InstructionAt(current))
    /\ HasPrefix(machine.error, UnsupportedInstructionPrefix)

\* Scenario D: foo $t0,$t1 has been executed and the message names it
C15_Witness ==
  /\ stepped
  /\ Executes(current)
  /\ current.program.instructions =
       <<<<"f", "o", "o", " ", "$", "t", "0", ",", "$", "t", "1">>>>
  /\ machine.status = "error"
  /\ machine.error = UnsupportedInstructionPrefix \o
                       <<"f", "o", "o", " ", "$", "t", "0", ",", "$", "t", "1">>

\* C16: executing syscall with a value in $v0 other than 1, 4, 10 or 11 yields
\* status error with an unsupported-syscall message and appends nothing to
\* output.
C16_UnsupportedSyscall ==
  (/\ stepped
   /\ Executes(current)
   /\ MatchSyscall(InstructionAt(current))
   /\ readMipsRegister(current, V0Reg) \notin {1, 4, 10, 11}) =>
    /\ machine.status = "error"
    /\ HasPrefix(machine.error, UnsupportedSyscallPrefix)
    /\ machine.output = current.output

\* syscall has been executed with $v0 = 99 after output had been printed
C16_Witness ==
  /\ stepped
  /\ Executes(current)
  /\ MatchSyscall(InstructionAt(current))
  /\ current.registers[V0Reg] = 99
  /\ current.output # <<>>
  /\ machine.status = "error"
  /\ machine.output = current.output

\* C17: executing syscall with $v0 = 4 appends to output exactly the string the
\* loader recorded at the address equal to $a0, and the empty string when none
\* was recorded at that exact address; the machine stays ready and pc advances
\* by one.
C17_PrintString ==
  /\ (/\ stepped
      /\ Executes(current)
      /\ MatchSyscall(InstructionAt(current))
      /\ readMipsRegister(current, V0Reg) = 4) =>
       LET a0 == readMipsRegister(current, A0Reg)
           recorded == current.program.dataByAddress
       IN /\ machine.output =
               current.output \o (IF a0 \in DOMAIN recorded THEN recorded[a0] ELSE <<>>)
          /\ machine.status = "ready"
          /\ machine.pc = current.pc + 1
  /\ machine.source = PrintStringSource =>
       /\ machine.program.dataByAddress = (MIPS_DATA_BASE :> <<"a", "b">>)
       /\ machine.output = IF machine.pc >= 7 THEN <<"a", "b">> ELSE <<>>

\* syscall 4 has been executed with $a0 one past the address of the string ab
\* and has printed nothing
C17_Witness ==
  /\ stepped
  /\ Executes(current)
  /\ MatchSyscall(InstructionAt(current))
  /\ current.registers[V0Reg] = 4
  /\ current.registers[A0Reg] = MIPS_DATA_BASE + 1
  /\ current.program.dataByAddress = (MIPS_DATA_BASE :> <<"a", "b">>)
  /\ machine.output = <<>>
  /\ machine.status = "ready"

\* C18: loading a source from which no instruction is collected fails with
\* the no-instructions error; the machine built from it has status error, that
\* message, steps 0 and empty output, and neither stepMipsMachine nor
\* runMipsMachineToEnd changes it.
C18_EmptyProgram ==
  LET parsed == parseMipsProgram(initial.source)
  IN /\ parsed.ok <=> initial.program.instructions # <<>>
     /\ ~parsed.ok =>
          /\ parsed.error = NoInstructionsMessage
          /\ initial.status = "error"
          /\ initial.error = NoInstructionsMessage
          /\ initial.steps = 0
          /\ initial.output = <<>>
          /\ machine = initial

\* a source with a data segment only has been stepped and run to the end
C18_Witness ==
  /\ machine.source = EmptySource
  /\ stepped
  /\ driver = "returned"
  /\ machine.status = "error"
  /\ machine.error = NoInstructionsMessage

\* C19: output is append-only: the output a step returns has the output of its
\* input as a prefix, and is strictly longer only when the executed instruction
\* is a syscall with $v0 in {1, 4, 11}.
C19_OutputAppendOnly ==
  stepped =>
    /\ HasPrefix(machine.output, current.output)
    /\ Len(machine.output) > Len(current.output) =>
         /\ Executes(current)
         /\ MatchSyscall(InstructionAt(current))
         /\ readMipsRegister(current, V0Reg) \in {1, 4, 11}

\* a syscall has appended to an output that was not empty
C19_Witness ==
  /\ stepped
  /\ current.output # <<>>
  /\ Len(machine.output) > Len(current.output)
  /\ readMipsRegister(current, V0Reg) = 11

C21_SharedProgramIndependent ==
  [][/\ \/ machine' = stepMipsMachine(machine) /\ second' = second
        \/ second' = stepMipsMachine(second) /\ machine' = machine
     /\ machine'.program = initial.program
     /\ second'.program = initial.program]_vars

\* both machines have executed, the second further than the first, one of them
\* has stored to memory and they have come to different memories
C21_Witness ==
  /\ machine.steps > 0
  /\ second.steps > machine.steps
  /\ machine.memory # second.memory
  /\ machine.touchedMemory # <<>>
  /\ machine.program = second.program

\* whether the beq or bne <<mnemonic, rs, rt, label>> is taken in state m
Taken(m, branch) ==
  IF LowerCase(branch[1]) = <<"b", "e", "q">>
  THEN readMipsRegister(m, branch[2]) = readMipsRegister(m, branch[3])
  ELSE readMipsRegister(m, branch[2]) # readMipsRegister(m, branch[3])

\* C22: every step that ends with status ready sets pc to the index bound to
\* the target label when the instruction is a j or a beq/bne whose condition is
\* true, and to pc + 1 for every other instruction (a beq/bne whose condition
\* is false included); no other pc value results.
C22_PcSuccessor ==
  (stepped /\ machine.status = "ready") =>
    /\ Executes(current)
    /\ LET branch == MatchBranch(InstructionAt(current))
           jump == MatchJump(InstructionAt(current))
       IN machine.pc =
            IF branch # Null /\ Taken(current, branch)
            THEN Get(current.program.labels, branch[4])[1]
            ELSE IF branch = Null /\ jump # Null
            THEN Get(current.program.labels, jump[1])[1]
            ELSE current.pc + 1

\* a taken branch has moved pc to its label, which is not the next instruction
C22_Witness ==
  /\ stepped
  /\ machine.status = "ready"
  /\ BranchAt(current) # Null
  /\ Taken(current, BranchAt(current))
  /\ machine.pc = Get(current.program.labels, BranchAt(current)[4])[1]
  /\ machine.pc # current.pc + 1

\* the loader's locals before each line of lines from line i on, and after the
\* last one
RECURSIVE LoaderStates(_, _, _)
LoaderStates(st, lines, i) ==
  IF i > Len(lines) THEN <<st>>
  ELSE <<st>> \o LoaderStates(LoadLine(st, lines[i]), lines, i + 1)

\* the data declaration that the loader, with locals st, reads on rawLine, as
\* <<address, size, inline label match, directive text>> (the match is Null
\* for a declaration without a label on its line); Null when the line
\* declares no data
DeclarationAt(st, rawLine) ==
  IF \/ st.inText
     \/ rawLine = <<".", "t", "e", "x", "t">>
     \/ rawLine = <<".", "d", "a", "t", "a">>
     \/ MatchGlobl(rawLine)
  THEN Null
  ELSE LET inlineLabel == MatchInlineLabel(rawLine)
           st1 == RecordLabel(st, inlineLabel)
           line == IF inlineLabel = Null THEN rawLine ELSE Trim(inlineLabel[2])
           after == LoadDataLine(st1, line, inlineLabel)
           address == DeclAddress(st1, inlineLabel)
       IN IF MatchAsciiz(line) = Null /\ MatchWord(line) = Null THEN Null
          ELSE <<address, after.nextDataAddress - address, inlineLabel, line>>

\* the data declarations of a source in source order
Declarations(source) ==
  LET lines == RawLines(source)
      states == LoaderStates(LoaderStart, lines, 1)
      decls == [i \in 1..Len(lines) |-> DeclarationAt(states[i], lines[i])]
  IN SelectSeq(decls, LAMBDA d : d # Null)

\* C23: while the loader processes the lines of a source, the allocation cursor
\* never decreases and no address is given to two different declarations.
C23_CursorMonotonic ==
  ~stepped =>
    LET lines == RawLines(machine.source)
        states == LoaderStates(LoaderStart, lines, 1)
        decls == Declarations(machine.source)
    IN /\ \A i \in 1..Len(lines) :
            states[i + 1].nextDataAddress >= states[i].nextDataAddress
       /\ \A i, j \in 1..Len(decls) : i # j => decls[i][1] # decls[j][1]

\* the size the layout rule gives a declaration: the length of the string
\* after escape expansion plus 1 for an .asciiz, 4 times max(1, number of
\* values) for a .word
DeclaredSize(line) ==
  LET asciiz == MatchAsciiz(line)
      words == MatchWord(line)
      parts == Split(words[1], ",")
      values == SelectSeq([i \in 1..Len(parts) |-> Trim(parts[i])], NonEmpty)
  IN IF asciiz # Null
     THEN Len(ReplaceEscape(ReplaceEscape(asciiz[1], "n", "\n"), "\"", "\"")) + 1
     ELSE 4 * (IF Len(values) > 1 THEN Len(values) ELSE 1)

\* C24: the first data declaration is placed at MIPS_DATA_BASE and each later
\* one at the address of the previous one plus its size; a data label is bound
\* to the address of the declaration that follows it.
C24_DataLayout ==
  ~stepped =>
    LET lines == RawLines(machine.source)
        states == LoaderStates(LoaderStart, lines, 1)
        decls == Declarations(machine.source)
        final == states[Len(lines) + 1]
        DeclAt(i) == DeclarationAt(states[i], lines[i])
        DataLabel(i) ==
          IF \/ states[i].inText
             \/ lines[i] = <<".", "t", "e", "x", "t">>
             \/ lines[i] = <<".", "d", "a", "t", "a">>
             \/ MatchGlobl(lines[i])
          THEN Null
          ELSE MatchInlineLabel(lines[i])
    IN /\ decls # <<>> => decls[1][1] = MIPS_DATA_BASE
       /\ \A i \in 2..Len(decls) :
            decls[i][1] = decls[i - 1][1] + DeclaredSize(decls[i - 1][4])
       /\ \A i \in 1..Len(lines) :
            \A j \in i..Len(lines) :
              (/\ DataLabel(i) # Null
               /\ DeclAt(j) # Null
               /\ \A k \in i..(j - 1) : DeclAt(k) = Null) =>
                Get(final.dataAddresses, DataLabel(i)[1]) = <<DeclAt(j)[1]>>

\* C25: every label defined in the .text segment is bound to the number of
\* instructions collected before it, which is the index of the first
\* instruction that follows it in the source (the instruction count when none
\* follows), whether the label stands alone on its line or before code; of two
\* definitions of one name the later one is the binding.
C25_TextLabelIndex ==
  ~stepped =>
    LET lines == RawLines(machine.source)
        states == LoaderStates(LoaderStart, lines, 1)
        final == states[Len(lines) + 1]
        TextLabel(i) ==
          IF \/ ~states[i].inText
             \/ lines[i] = <<".", "t", "e", "x", "t">>
             \/ lines[i] = <<".", "d", "a", "t", "a">>
             \/ MatchGlobl(lines[i])
          THEN Null
          ELSE MatchInlineLabel(lines[i])
        Collects(j) == Len(states[j + 1].instructions) > Len(states[j].instructions)
        Code(j) == IF MatchInlineLabel(lines[j]) = Null THEN lines[j]
                   ELSE Trim(MatchInlineLabel(lines[j])[2])
    IN \A i \in 1..Len(lines) :
         (/\ TextLabel(i) # Null
          /\ \A k \in (i + 1)..Len(lines) :
               TextLabel(k) = Null \/ TextLabel(k)[1] # TextLabel(i)[1]) =>
           LET index == Get(final.labels, TextLabel(i)[1])
           IN /\ index = <<Len(states[i].instructions)>>
              /\ \A j \in i..Len(lines) :
                   (Collects(j) /\ \A k \in i..(j - 1) : ~Collects(k)) =>
                     final.instructions[index[1] + 1] = Code(j)
              /\ (\A j \in i..Len(lines) : ~Collects(j)) =>
                   index[1] = Len(final.instructions)

\* a program is loaded whose labels main and first (alone on a line, and before
\* code) are bound to 0, again (defined twice) to 2 and done (after the last
\* instruction) to the instruction count
C25_Witness ==
  /\ ~stepped
  /\ machine.status = "ready"
  /\ Len(machine.program.instructions) = 3
  /\ Get(machine.program.labels, <<"m", "a", "i", "n">>) = <<0>>
  /\ Get(machine.program.labels, <<"f", "i", "r", "s", "t">>) = <<0>>
  /\ Get(machine.program.labels, <<"a", "g", "a", "i", "n">>) = <<2>>
  /\ Get(machine.program.labels, <<"d", "o", "n", "e">>) = <<3>>

\* C26: in every state reachable from initializeMipsMachine the error string
\* is non-empty exactly when status is error: a load-time or run-time failure
\* sets status error together with a message, and ready and halted states
\* carry an empty error.
C26_ErrorIffStatusError ==
  /\ (machine.error # <<>>) <=> (machine.status = "error")
  /\ (initial.error # <<>>) <=> (initial.status = "error")

\* a step of a ready machine has failed and left a message
C26_Witness ==
  /\ stepped
  /\ initial.status = "ready"
  /\ initial.error = <<>>
  /\ current.status = "ready"
  /\ machine.status = "error"
  /\ machine.error # <<>>

\* whether no entry occurs twice in seq
NoDuplicate(seq) == \A i, j \in 1..Len(seq) : seq[i] = seq[j] => i = j

\* C27: touchedRegisters and touchedMemory never contain a duplicate entry,
\* and each step only appends to them: the sequence in the input state is a
\* prefix of the sequence in the returned state.
C27_TouchedAppendOnly ==
  /\ NoDuplicate(machine.touchedRegisters)
  /\ NoDuplicate(machine.touchedMemory)
  /\ stepped =>
       /\ HasPrefix(machine.touchedRegisters, current.touchedRegisters)
       /\ HasPrefix(machine.touchedMemory, current.touchedMemory)

\* a step has loaded from an address that was touched before into a register
\* that was not: touchedMemory is as it was, touchedRegisters one longer
C27_Witness ==
  /\ stepped
  /\ machine.status = "ready"
  /\ LoadAt(current) # Null
  /\ Includes(current.touchedMemory, LoadAt(current)[2])
  /\ machine.touchedMemory = current.touchedMemory
  /\ current.touchedRegisters # <<>>
  /\ machine.touchedRegisters = Append(current.touchedRegisters, LoadAt(current)[1])

\* seq with x added at the end unless it occurs in seq
AppendNew(seq, x) == IF Includes(seq, x) THEN seq ELSE Append(seq, x)

\* the register that the call stepMipsMachine(m) writes, as <<name>>: the
\* destination of an li, la, move, addi, add, sub or lw that does not fail,
\* when it names a register other than $zero; Null when the call writes none
WrittenRegister(m) ==
  IF ~Executes(m) THEN Null
  ELSE IF stepMipsMachine(m).status = "error" THEN Null
  ELSE LET inst == InstructionAt(m)
           dest == IF MatchLi(inst) # Null THEN <<MatchLi(inst)[1]>>
                   ELSE IF MatchLa(inst) # Null THEN <<MatchLa(inst)[1]>>
                   ELSE IF MatchMove(inst) # Null THEN <<MatchMove(inst)[1]>>
                   ELSE IF MatchAddi(inst) # Null THEN <<MatchAddi(inst)[1]>>
                   ELSE IF MatchArithmetic(inst) # Null THEN <<MatchArithmetic(inst)[2]>>
                   ELSE IF MatchLw(inst) # Null THEN <<MatchLw(inst)[1]>>
                   ELSE Null
       IN IF dest = Null THEN Null
          ELSE IF dest[1] \in MIPS_REGISTER_SET /\ dest[1] # ZeroReg THEN dest
          ELSE Null

\* the touched list seq after an access to the entries of the tuple hit (Null
\* or <<entry>>)
Touch(seq, hit) == IF hit = Null THEN seq ELSE AppendNew(seq, hit[1])

\* C28: touchedRegisters lists exactly the registers written during
\* the execution in the order of their first write, and touchedMemory lists
\* exactly the memory addresses stored to during the execution in the order of
\* their first write.
C28_TouchedAreWritten ==
  /\ initial.touchedRegisters = <<>> /\ initial.touchedMemory = <<>>
  /\ {machine.touchedMemory[i] : i \in 1..Len(machine.touchedMemory)} = written
  /\ stepped =>
       /\ machine.touchedRegisters =
            Touch(current.touchedRegisters, WrittenRegister(current))
       /\ machine.touchedMemory =
            Touch(current.touchedMemory,
                  IF StoreAt(current) = Null THEN Null ELSE <<StoreAt(current)[2]>>)

\* the fields of m other than the touched lists
Untouched(m) == [m EXCEPT !.touchedRegisters = <<>>, !.touchedMemory = <<>>]

\* touched lists to put in place of those of the argument of the last step:
\* none, the lists that step returned (which list what it wrote and accessed),
\* and every register
TouchedRegistersVariants == {<<>>, machine.touchedRegisters, MIPS_REGISTERS}

TouchedMemoryVariants == {<<>>, machine.touchedMemory}

\* C29: two states that agree on program, registers, memory, output, status,
\* error, pc and steps and differ only in touchedRegisters or touchedMemory
\* are mapped by step to states that again agree on all of those fields.
C29_TouchedCarryNoSemantics ==
  stepped =>
    \A tr \in TouchedRegistersVariants, tm \in TouchedMemoryVariants :
      Untouched(stepMipsMachine([current EXCEPT !.touchedRegisters = tr,
                                                !.touchedMemory = tm]))
        = Untouched(machine)

\* a step has changed a register that was listed in touchedRegisters, so the
\* same step from the state with empty touched lists takes the other branch of
\* the includes test
C29_Witness ==
  /\ stepped
  /\ WrittenRegister(current) # Null
  /\ Includes(current.touchedRegisters, WrittenRegister(current)[1])
  /\ machine.registers # current.registers
  /\ machine.touchedRegisters = current.touchedRegisters
  /\ stepMipsMachine(Untouched(current)).touchedRegisters # machine.touchedRegisters
  /\ Untouched(stepMipsMachine(Untouched(current))) = Untouched(machine)

\* C30: no step changes the Program (instruction list, label table,
\* data-address table, data-content table), and the data segment is separate
\* from memory: whatever has been stored by sw, also to the address a string
\* was loaded at, syscall 4 with $a0 equal to that address prints the string
\* as loaded.
C30_ProgramUnchanged ==
  /\ machine.program = initial.program
  /\ (/\ stepped
      /\ Executes(current)
      /\ MatchSyscall(InstructionAt(current))
      /\ readMipsRegister(current, V0Reg) = 4
      /\ Has(initial.program.dataByAddress, readMipsRegister(current, A0Reg))) =>
       /\ machine.status = "ready"
       /\ machine.output =
            current.output \o initial.program.dataByAddress[readMipsRegister(current, A0Reg)]
       /\ machine.memory = current.memory

\* syscall 4 has printed the string loaded at an address that sw has stored
\* to, and memory holds the stored value under that address
C30_Witness ==
  /\ stepped
  /\ Executes(current)
  /\ MatchSyscall(InstructionAt(current))
  /\ readMipsRegister(current, V0Reg) = 4
  /\ readMipsRegister(current, A0Reg) = MIPS_DATA_BASE
  /\ NumberString(MIPS_DATA_BASE) \in written
  /\ Get(machine.memory, NumberString(MIPS_DATA_BASE)) = <<7>>
  /\ machine.output = <<"a", "b">>

\* C31: instruction validity is checked only when an instruction is executed:
\* a source with at least one instruction loads successfully whatever its
\* instructions are, and the program with unsupported and malformed
\* instructions at indices pc never reaches never fails and ends halted.
C31_LazyValidation ==
  /\ initial.program.instructions # <<>> =>
       /\ initial.status = "ready"
       /\ initial.error = <<>>
  /\ machine.source = UnreachedBadSource =>
       /\ \E i \in 1..Len(machine.program.instructions) :
            Unsupported(machine.program.instructions[i])
       /\ machine.status # "error"
       /\ machine.error = <<>>
       /\ machine.pc \notin {2, 3, 4, 7}
       /\ driver = "returned" => machine.status = "halted"

\* the program with the unreached instructions has been run to the end
C31_Witness ==
  /\ machine.source = UnreachedBadSource
  /\ Unsupported(machine.program.instructions[3])
  /\ Unsupported(machine.program.instructions[8])
  /\ driver = "returned"
  /\ machine.status = "halted"
  /\ machine.error = <<>>
  /\ machine.steps = 4

\* whether the wide number w lies in the signed 32-bit range
InRange(w) == WOfInt(ToInt32(w)) = w

\* the double of the 32-bit integer n
DoubleOfInt(n) ==
  LET w == IF n < 0 THEN WNeg(WOfInt(n)) ELSE WOfInt(n)
  IN RoundToDouble(n < 0, Normalize(<<w[2], w[1]>>))

\* whether the double x is an integer of the signed 32-bit range
IsInt32(x) ==
  /\ ~x.infinite
  /\ DoubleOfInt(DoubleToInt32(x)).mantissa = x.mantissa
  /\ DoubleOfInt(DoubleToInt32(x)).exponent = x.exponent
  /\ (x.mantissa = <<>> \/ DoubleOfInt(DoubleToInt32(x)).negative = x.negative)

\* the exact sum base register + offset of the operand offset(base) in state m,
\* as a wide number; Null for an operand of another form
ExactAddress(m, operand) ==
  LET offsetBase == MatchOffsetBase(operand)
  IN IF offsetBase = Null THEN Null
     ELSE <<WAdd(WOfInt(readMipsRegister(m, Trim(offsetBase[2]))),
                 WOfInt(parseMipsNumber(Trim(offsetBase[1]))[1]))>>

\* the memory access <<register, key, operand>> of the call stepMipsMachine(m)
AccessAt(m) == IF StoreAt(m) # Null THEN StoreAt(m) ELSE LoadAt(m)

\* C32: in every reachable state, the initial state built from arbitrary
\* register and memory overrides included, every register value, every memory
\* address (the number a memory key is the decimal text of) and every memory
\* value lies in the signed 32-bit range; the address of an operand
\* offset(base) is the sum wrapped around to that range.
C32_SignedRange ==
  /\ \A reg \in DOMAIN machine.registers : machine.registers[reg] \in MinInt..MaxInt
  /\ \A key \in DOMAIN machine.memory :
       LET address == ParseInt(key, 10)
       IN /\ address # Null
          /\ IsInt32(address[1])
          /\ NumberString(DoubleToInt32(address[1])) = key
          /\ machine.memory[key] \in MinInt..MaxInt
  /\ (stepped /\ AccessAt(current) # Null) =>
       LET exact == ExactAddress(current, AccessAt(current)[3])
       IN exact # Null => AccessAt(current)[2] = NumberString(ToInt32(exact[1]))

\* a machine initialized with memory overrides whose keys and values leave the
\* 32-bit range has stored to base + offset with a sum beyond the range: the
\* key is the wrapped address
C32_Witness ==
  /\ stepped
  /\ StoreAt(current) # Null
  /\ ExactAddress(current, StoreAt(current)[3]) # Null
  /\ ~InRange(ExactAddress(current, StoreAt(current)[3])[1])
  /\ StoreAt(current)[2] \in DOMAIN machine.memory
  /\ Get(initial.memory, <<"4", "0">>) = <<MinInt>>
  /\ Get(initial.memory, NumberString(MaxInt - 3)) = <<1>>
  /\ Get(initial.memory, <<"2", "0">>) = <<3>>

\* C33: in every state reachable from initializeMipsMachine,
\* 0 <= pc <= instructionCount, and every label index lies in
\* [0, instructionCount].
C33_PcWithinProgram ==
  /\ machine.pc >= 0
  /\ machine.pc <= Len(machine.program.instructions)
  /\ \A label \in DOMAIN machine.program.labels :
       /\ machine.program.labels[label] >= 0
       /\ machine.program.labels[label] <= Len(machine.program.instructions)

\* pc has gone backward to a label and later reached the instruction count
\* through a taken branch to a label after the last instruction
C33_Witness ==
  /\ stepped
  /\ BranchAt(current) # Null
  /\ Taken(current, BranchAt(current))
  /\ machine.status = "ready"
  /\ machine.pc = Len(machine.program.instructions)
  /\ machine.pc > current.pc + 1
  /\ machine.steps > Len(machine.program.instructions)

\* C34: a step that ends in error leaves registers, memory, output, pc,
\* touchedRegisters and touchedMemory (and source and program) equal to those
\* of the input state; only status, error and steps differ.
C34_ErrorStepFrame ==
  (stepped /\ current.status = "ready" /\ machine.status = "error") =>
    /\ machine = [current EXCEPT !.status = "error",
                                 !.error = machine.error,
                                 !.steps = machine.steps]
    /\ machine.steps = IF Executes(current) THEN current.steps + 1 ELSE current.steps

\* an instruction has failed after earlier ones wrote registers and produced
\* output
C34_Witness ==
  /\ stepped
  /\ current.status = "ready"
  /\ machine.status = "error"
  /\ machine.steps = current.steps + 1
  /\ current.touchedRegisters # <<>>
  /\ current.output # <<>>
  /\ current.pc > 0
  /\ machine.registers = current.registers
  /\ machine.pc = current.pc

\* C35: the pc-out-of-range check is made before the step-bound check: a ready
\* state with pc outside the instruction range steps to halted whatever its
\* step count, so the program that executes exactly MIPS_MAX_STEPS
\* instructions and then falls off the end finishes with status halted.
C35_RangeCheckFirst ==
  /\ (/\ stepped
      /\ current.status = "ready"
      /\ (current.pc < 0 \/ current.pc >= Len(current.program.instructions))) =>
       machine = [current EXCEPT !.status = "halted"]
  /\ machine.source = ExactBoundSource =>
       /\ machine.status # "error"
       /\ driver = "returned" =>
            (machine.status = "halted" /\ machine.steps = MIPS_MAX_STEPS)

\* the program has executed MIPS_MAX_STEPS instructions and the next call, with
\* pc at the instruction count, has halted it
C35_Witness ==
  /\ machine.source = ExactBoundSource
  /\ stepped
  /\ current.status = "ready"
  /\ current.steps = MIPS_MAX_STEPS
  /\ current.pc = Len(current.program.instructions)
  /\ machine.status = "halted"
  /\ machine.error = <<>>

\* C36: a successful sw leaves memory as it was but for the computed address,
\* which holds the stored register's value, and changes no register; a
\* successful lw changes no memory value and no register other than its
\* destination; every other call of step leaves memory unchanged.
C36_MemoryFrame ==
  stepped =>
    /\ StoreAt(current) # Null =>
         /\ machine.memory =
              Put(current.memory, StoreAt(current)[2],
                  readMipsRegister(current, StoreAt(current)[1]))
         /\ machine.registers = current.registers
    /\ StoreAt(current) = Null => machine.memory = current.memory
    /\ LoadAt(current) # Null =>
         \A reg \in DOMAIN current.registers :
           reg # LoadAt(current)[1] => machine.registers[reg] = current.registers[reg]

\* a sw has changed one of several memory entries, and the step before it was
\* a lw that changed its destination register
C36_Witness ==
  /\ stepped
  /\ StoreAt(current) # Null
  /\ LoadAt(previous) # Null
  /\ current.registers # previous.registers
  /\ current.memory = previous.memory
  /\ machine.memory # current.memory
  /\ \E key \in DOMAIN current.memory :
       key # StoreAt(current)[2] /\ machine.memory[key] = current.memory[key]

\* the value a source operand reads in state m: 0 for a name outside the
\* register set
SourceValue(m, name) == IF name \in MIPS_REGISTER_SET THEN m.registers[name] ELSE 0

\* the destination <<name>> of the li, la, move, addi, add, sub or lw at
\* m.pc, Null for another instruction
DestinationOf(inst) ==
  IF MatchLi(inst) # Null THEN <<MatchLi(inst)[1]>>
  ELSE IF MatchLa(inst) # Null THEN <<MatchLa(inst)[1]>>
  ELSE IF MatchMove(inst) # Null THEN <<MatchMove(inst)[1]>>
  ELSE IF MatchAddi(inst) # Null THEN <<MatchAddi(inst)[1]>>
  ELSE IF MatchArithmetic(inst) # Null THEN <<MatchArithmetic(inst)[2]>>
  ELSE IF MatchLw(inst) # Null THEN <<MatchLw(inst)[1]>>
  ELSE Null

\* whether the instruction fails for a reason other than a register name: an
\* invalid immediate, a label missing from the table it is looked up in, a
\* memory operand that is no address, or an unsupported form
FailsOtherwise(m, inst) ==
  LET li == MatchLi(inst)
      la == MatchLa(inst)
      addi == MatchAddi(inst)
      branch == MatchBranch(inst)
      jump == MatchJump(inst)
      mem == IF MatchLw(inst) # Null THEN MatchLw(inst) ELSE MatchSw(inst)
      offsetBase == MatchOffsetBase(Trim(mem[2]))
  IN IF li # Null THEN parseMipsNumber(li[2]) = Null
     ELSE IF la # Null THEN ~Has(m.program.dataAddresses, la[2])
     ELSE IF MatchMove(inst) # Null THEN FALSE
     ELSE IF addi # Null THEN parseMipsNumber(addi[3]) = Null
     ELSE IF MatchArithmetic(inst) # Null THEN FALSE
     ELSE IF mem # Null
     THEN (IF offsetBase # Null THEN parseMipsNumber(Trim(offsetBase[1])) = Null
           ELSE /\ ~Has(m.program.dataAddresses, Trim(mem[2]))
                /\ parseMipsNumber(Trim(mem[2])) = Null)
     ELSE IF branch # Null
     THEN /\ (IF LowerCase(branch[1]) = <<"b", "e", "q">>
              THEN SourceValue(m, branch[2]) = SourceValue(m, branch[3])
              ELSE SourceValue(m, branch[2]) # SourceValue(m, branch[3]))
          /\ ~Has(m.program.labels, branch[4])
     ELSE IF jump # Null THEN ~Has(m.program.labels, jump[1])
     ELSE IF MatchSyscall(inst) THEN readMipsRegister(m, V0Reg) \notin {1, 4, 10, 11}
     ELSE TRUE

\* the base register name of the lw or sw operand offset(base), as <<name>>;
\* Null for another instruction or operand
BaseOf(inst) ==
  LET mem == IF MatchLw(inst) # Null THEN MatchLw(inst) ELSE MatchSw(inst)
      offsetBase == MatchOffsetBase(Trim(mem[2]))
  IN IF mem = Null THEN Null
     ELSE IF offsetBase = Null THEN Null
     ELSE <<Trim(offsetBase[2])>>

\* C37: a register operand whose name is not one of the 32 register names
\* never causes an error in li, la, move, addi, add, sub, beq, bne, or as the
\* data register of lw/sw: as a destination the write is dropped (no register
\* changes, the name is not added to touchedRegisters, pc advances), and as a
\* source it reads as 0; only as the base register of a memory operand does an
\* unknown name make the step fail.
C37_UnknownRegisterNames ==
  /\ DOMAIN machine.registers = MIPS_REGISTER_SET
  /\ (stepped /\ Executes(current)) =>
       LET inst == InstructionAt(current)
           dest == DestinationOf(inst)
           base == BaseOf(inst)
           unknownBase == base # Null /\ base[1] \notin MIPS_REGISTER_SET
           move == MatchMove(inst)
           addi == MatchAddi(inst)
           arithmetic == MatchArithmetic(inst)
       IN /\ (machine.status = "error") <=> (FailsOtherwise(current, inst) \/ unknownBase)
          /\ unknownBase => HasPrefix(machine.error, InvalidMemoryOperandPrefix)
          /\ (/\ dest # Null
              /\ dest[1] \notin MIPS_REGISTER_SET
              /\ machine.status # "error") =>
               /\ machine.status = "ready"
               /\ machine.registers = current.registers
               /\ machine.touchedRegisters = current.touchedRegisters
               /\ machine.pc = current.pc + 1
          /\ (move # Null /\ WrittenRegister(current) # Null) =>
               machine.registers[move[1]] = SourceValue(current, move[2])
          /\ (addi # Null /\ WrittenRegister(current) # Null) =>
               machine.registers[addi[1]] =
                 ToInt32(WAdd(WOfInt(SourceValue(current, addi[2])),
                              WOfInt(parseMipsNumber(addi[3])[1])))
          /\ (arithmetic # Null /\ WrittenRegister(current) # Null) =>
               machine.registers[arithmetic[2]] =
                 ToInt32(IF LowerCase(arithmetic[1]) = <<"a", "d", "d">>
                         THEN WAdd(WOfInt(SourceValue(current, arithmetic[3])),
                                   WOfInt(SourceValue(current, arithmetic[4])))
                         ELSE WSub(WOfInt(SourceValue(current, arithmetic[3])),
                                   WOfInt(SourceValue(current, arithmetic[4]))))
          /\ StoreAt(current) # Null =>
               machine.memory[StoreAt(current)[2]] =
                 SourceValue(current, StoreAt(current)[1])

\* an add with an unknown destination has been dropped, and the add after it,
\* with an unknown source, has written its other operand plus 0
C37_Witness ==
  /\ stepped
  /\ Executes(previous)
  /\ Executes(current)
  /\ MatchArithmetic(InstructionAt(previous)) # Null
  /\ MatchArithmetic(InstructionAt(previous))[2] \notin MIPS_REGISTER_SET
  /\ current.registers = previous.registers
  /\ current.pc = previous.pc + 1
  /\ MatchArithmetic(InstructionAt(current)) # Null
  /\ MatchArithmetic(InstructionAt(current))[3] \notin MIPS_REGISTER_SET
  /\ machine.status = "ready"
  /\ machine.registers[T2Reg] = 1
  /\ machine.registers[<<"$", "t", "3">>] = current.registers[T0Reg]
  /\ current.registers[T0Reg] = MinInt

\* the names of the labels a source defines in its text segment (inText =
\* TRUE) or in its data segment (inText = FALSE)
LabelNames(source, inText) ==
  LET lines == RawLines(source)
      states == LoaderStates(LoaderStart, lines, 1)
  IN {MatchInlineLabel(lines[i])[1] :
        i \in {k \in 1..Len(lines) :
                /\ states[k].inText = inText
                /\ lines[k] # <<".", "t", "e", "x", "t">>
                /\ lines[k] # <<".", "d", "a", "t", "a">>
                /\ ~MatchGlobl(lines[k])
                /\ MatchInlineLabel(lines[k]) # Null}}

\* the operand of the lw or sw inst when it is neither offset(base) nor a
\* number, as <<operand>>; Null otherwise
BareLabelOf(inst) ==
  LET mem == IF MatchLw(inst) # Null THEN MatchLw(inst) ELSE MatchSw(inst)
  IN IF mem = Null THEN Null
     ELSE IF MatchOffsetBase(Trim(mem[2])) # Null THEN Null
     ELSE IF parseMipsNumber(Trim(mem[2])) # Null THEN Null
     ELSE <<Trim(mem[2])>>

\* C38: text labels and data labels are separate namespaces: j and a taken
\* beq/bne resolve their target only among the labels defined in .text, and la
\* and a bare-label lw/sw operand only among the labels defined in .data; with
\* a label of the other segment the step ends in error.
C38_SeparateNamespaces ==
  LET text == LabelNames(machine.source, TRUE)
      data == LabelNames(machine.source, FALSE)
  IN /\ machine.status = "ready" =>
          /\ DOMAIN machine.program.labels = text
          /\ DOMAIN machine.program.dataAddresses = data
     /\ (stepped /\ Executes(current)) =>
          LET inst == InstructionAt(current)
              jump == MatchJump(inst)
              branch == BranchAt(current)
              la == MatchLa(inst)
              bare == BareLabelOf(inst)
          IN /\ jump # Null => ((machine.status = "error") <=> (jump[1] \notin text))
             /\ (branch # Null /\ Taken(current, branch)) =>
                  ((machine.status = "error") <=> (branch[4] \notin text))
             /\ la # Null => ((machine.status = "error") <=> (la[2] \notin data))
             /\ bare # Null => ((machine.status = "error") <=> (bare[1] \notin data))

\* a j to a label of the data segment has failed, after a branch to a name
\* defined in both segments went to the text label and a sw with that name as
\* its operand stored at the data address
C38_Witness ==
  /\ stepped
  /\ Executes(current)
  /\ MatchJump(InstructionAt(current)) # Null
  /\ MatchJump(InstructionAt(current))[1] \in LabelNames(machine.source, FALSE)
  /\ machine.status = "error"
  /\ machine.error = UnknownLabelPrefix \o <<"m", "s", "g">>
  /\ StoreAt(previous) # Null
  /\ StoreAt(previous)[2] = NumberString(MIPS_DATA_BASE + 2)
  /\ previous.pc = 5

\* the label that the call stepMipsMachine(m) transfers control to: the target
\* of the j or of the taken beq/bne it executes, as <<label>>; Null otherwise
TargetAt(m) ==
  IF ~Executes(m) THEN Null
  ELSE IF BranchAt(m) # Null
  THEN (IF Taken(m, BranchAt(m)) THEN <<BranchAt(m)[4]>> ELSE Null)
  ELSE IF MatchJump(InstructionAt(m)) # Null THEN <<MatchJump(InstructionAt(m))[1]>>
  ELSE Null

\* C39: a jump or taken branch to a label defined after the last instruction
\* (bound to the instruction count) is not an error: the step leaves the
\* machine ready with pc equal to the instruction count, and the next step
\* sets status to halted.
C39_EndLabelHalts ==
  /\ (/\ stepped
      /\ TargetAt(current) # Null
      /\ Get(current.program.labels, TargetAt(current)[1])
           = <<Len(current.program.instructions)>>) =>
       /\ machine.status = "ready"
       /\ machine.error = <<>>
       /\ machine.pc = Len(machine.program.instructions)
       /\ stepMipsMachine(machine) = [machine EXCEPT !.status = "halted"]
  /\ (/\ stepped
      /\ current # previous
      /\ TargetAt(previous) # Null
      /\ Get(previous.program.labels, TargetAt(previous)[1])
           = <<Len(previous.program.instructions)>>) =>
       /\ machine.status = "halted"
       /\ machine.error = <<>>
       /\ machine.steps = current.steps

\* j end, with end defined after the last instruction, has been executed and
\* the step after it has halted the machine
C39_Witness ==
  /\ stepped
  /\ Executes(previous)
  /\ MatchJump(InstructionAt(previous)) # Null
  /\ Get(previous.program.labels, MatchJump(InstructionAt(previous))[1])
       = <<Len(previous.program.instructions)>>
  /\ current.status = "ready"
  /\ current.pc = Len(current.program.instructions)
  /\ current.steps = previous.steps + 1
  /\ machine.status = "halted"

====
